---- MODULE Spec2Model ----
(***************************************************************************)
(* Model of the contact-flow promotion toolchain:                          *)
(*   - TemplateRenderer (scripts/render.js): token resolution and render   *)
(*   - FlowNormalizer   (scripts/normalize.js): the four normalize passes  *)
(* Text is modelled as a sequence of one-character strings, JSON values as *)
(* tagged records, JSON objects as sequences of <<key, value>> pairs in    *)
(* property (insertion) order.                                             *)
(***************************************************************************)
EXTENDS Integers, Sequences, FiniteSets

VARIABLES envConfig, rTemplate, rOut, tPath, tOut, nInput, nOut, nOut2,
          vFlow, vOut,
          fsEnv, fsFlows, errors, warnings, vPc, vaOut, exitCode,
          connectFlows, nextFlowId, grants, connectCalls, processEnv,
          physicalId, event, response, nReq, inFlight, nRuns,
          cliEnv, cliFlows, outDir, cliResults, cliExit,
          remoteFlows, exportDir, clock, lastExport

vars == <<envConfig, rTemplate, rOut, tPath, tOut, nInput, nOut, nOut2,
          vFlow, vOut,
          fsEnv, fsFlows, errors, warnings, vPc, vaOut, exitCode,
          connectFlows, nextFlowId, grants, connectCalls, processEnv,
          physicalId, event, response, nReq, inFlight, nRuns,
          cliEnv, cliFlows, outDir, cliResults, cliExit,
          remoteFlows, exportDir, clock, lastExport>>

renderVars == <<envConfig, rTemplate, rOut, tPath, tOut>>

normVars == <<nInput, nOut, nOut2>>

\* validateRenderedFlow: the artifact and the outcome of the call
checkVars == <<vFlow, vOut>>

\* FlowValidator: the files it reads, its two lists, its position in
\* validateAll, the outcome of validateAll, the exit code of the command and
\* the number of validateAll calls made on the validator
validatorVars == <<fsEnv, fsFlows, errors, warnings, vPc, vaOut, exitCode, nRuns>>

\* Deployment handler: the contact flows of the instance and the number of
\* the next one, the Lambda and Connect calls of the last request, the
\* AWS_ACCOUNT_ID of the handler's environment, the resource id
\* CloudFormation holds, the last request and its response, and the number
\* of requests handled, and the handler invocations that run concurrently
handlerVars == <<connectFlows, nextFlowId, grants, connectCalls, processEnv, physicalId, event, response, nReq, inFlight>>

\* The render command: the environment file and the flows directory it
\* reads, the files of the output directory, the results of
\* processFlowsDirectory and the exit code
cliVars == <<cliEnv, cliFlows, outDir, cliResults, cliExit>>

\* ConnectFlowExporter: the contact flows of the instance, the export
\* directory, the time and the last exportIncremental call
exporterVars == <<remoteFlows, exportDir, clock, lastExport>>

(***************************************************************************)
(* JSON / JavaScript values                                                *)
(***************************************************************************)
JNull == [t |-> "null"]

Undefined == [t |-> "undefined"]

JNum(n) == [t |-> "num", n |-> n]

JStr(s) == [t |-> "str", s |-> s]

JArr(a) == [t |-> "arr", a |-> a]

JObj(o) == [t |-> "obj", o |-> o]

JFun(name) == [t |-> "function", name |-> name]

\* No call made yet / result slot not filled.
NoCall == [kind |-> "none"]

\* The components that a specification does not exercise stay as constructed.
CheckIdle == vFlow = [t |-> "null"] /\ vOut = NoCall

ValidatorIdle ==
    /\ fsEnv = <<>> /\ fsFlows = <<>>
    /\ errors = <<>> /\ warnings = <<>>
    /\ vPc = "idle" /\ vaOut = NoCall /\ exitCode = -1 /\ nRuns = 0

HandlerIdle ==
    /\ connectFlows = <<>> /\ nextFlowId = 1
    /\ grants = <<>> /\ connectCalls = <<>> /\ processEnv = [t |-> "undefined"]
    /\ physicalId = <<>> /\ event = NoCall /\ response = NoCall /\ nReq = 0
    /\ inFlight = <<>>

CliIdle ==
    /\ cliEnv = <<>> /\ cliFlows = <<>> /\ outDir = {}
    /\ cliResults = [started |-> FALSE, list |-> <<>>] /\ cliExit = -1

ExporterIdle ==
    /\ remoteFlows = <<>> /\ exportDir = {} /\ clock = 0 /\ lastExport = NoCall

IsObj(v) == v.t = "obj"

IsArr(v) == v.t = "arr"

OwnKeys(v) == {v.o[i][1] : i \in 1..Len(v.o)}

OwnValue(v, k) == LET i == CHOOSE j \in 1..Len(v.o) : v.o[j][1] = k IN v.o[i][2]

(***************************************************************************)
(* Text helpers                                                            *)
(***************************************************************************)
RECURSIVE Concat(_)
Concat(ss) == IF ss = <<>> THEN <<>> ELSE Head(ss) \o Concat(Tail(ss))

Min(S) == CHOOSE x \in S : \A y \in S : x <= y

\* String.prototype.split('.') : the segments between the dots (possibly empty).
RECURSIVE SplitDot(_)
SplitDot(p) ==
    IF \A i \in 1..Len(p) : p[i] # "."
    THEN <<p>>
    ELSE LET d == Min({i \in 1..Len(p) : p[i] = "."})
         IN <<SubSeq(p, 1, d - 1)>> \o SplitDot(SubSeq(p, d + 1, Len(p)))

(***************************************************************************)
(* TemplateRenderer                                                        *)
(***************************************************************************)
\* this.tokenPattern = /\$\{([^}]+)\}/g : every match of the pattern in s,
\* left to right, non-overlapping, as [from, to, path] (1-based, inclusive).
RECURSIVE MatchesFrom(_, _)
MatchesFrom(s, i) ==
    LET starts == {p \in i..(Len(s) - 3) :
                     /\ s[p] = "$" /\ s[p + 1] = "{" /\ s[p + 2] # "}"
                     /\ \E j \in (p + 3)..Len(s) : s[j] = "}"}
    IN IF starts = {} THEN <<>>
       ELSE LET p == Min(starts)
                j == Min({k \in (p + 3)..Len(s) : s[k] = "}"})
            IN <<[from |-> p, to |-> j, path |-> SubSeq(s, p + 2, j - 1)]>>
               \o MatchesFrom(s, j + 1)

tokenPattern(s) == MatchesFrom(s, 1)

\* Properties every plain object inherits from Object.prototype; the `in`
\* operator of resolveToken sees them as well as the object's own keys.
ConstructorKey == <<"c", "o", "n", "s", "t", "r", "u", "c", "t", "o", "r">>

InheritedKeys == {ConstructorKey}

InheritedValue(k) == JFun(<<"O", "b", "j", "e", "c", "t">>)

\* `part in value`
HasProperty(value, part) == part \in OwnKeys(value) \/ part \in InheritedKeys

\* `value[part]`
GetProperty(value, part) ==
    IF part \in OwnKeys(value) THEN OwnValue(value, part) ELSE InheritedValue(part)

\* The loop of resolveToken over the path parts.  The token trees of the
\* modelled environment maps hold maps, strings and null, so the test
\* `value && typeof value === 'object'` is the test for a map.
RECURSIVE Walk(_, _)
Walk(value, parts) ==
    IF parts = <<>> THEN value
    ELSE IF IsObj(value) /\ HasProperty(value, Head(parts))
         THEN Walk(GetProperty(value, Head(parts)), Tail(parts))
         ELSE Undefined

resolveToken(cfg, tokenPath) == Walk(cfg.tokens, SplitDot(tokenPath))

\* String(value): what String.prototype.replace splices in for the value a
\* replacer function returns.
StringOf(v) ==
    CASE v.t = "str" -> v.s
      [] v.t = "obj" ->
           <<"[", "o", "b", "j", "e", "c", "t", " ", "O", "b", "j", "e", "c", "t", "]">>
      [] v.t = "function" ->
           <<"f", "u", "n", "c", "t", "i", "o", "n", " ">> \o v.name
           \o <<"(", ")", " ", "{", " ", "[", "n", "a", "t", "i", "v", "e", " ",
                "c", "o", "d", "e", "]", " ", "}">>
      [] OTHER -> <<>>

\* template.replace(pattern, fn): the text built from the matches ms of s and
\* the replacement texts reps, scanning from match k at position pos.
RECURSIVE Splice(_, _, _, _, _)
Splice(s, ms, reps, k, pos) ==
    IF k > Len(ms) THEN SubSeq(s, pos, Len(s))
    ELSE SubSeq(s, pos, ms[k].from - 1) \o reps[k]
         \o Splice(s, ms, reps, k + 1, ms[k].to + 1)

Max(S) == CHOOSE x \in S : \A y \in S : x >= y

\* Mutant: the callback drops the value instead of returning it.
Replacement_dropped(cfg, value) == <<>>

\* The replacer callback of render: the text for one resolved value.
Replacement(cfg, value) == StringOf(value)

\* Mutant: the error names the last unresolved match, after evaluating all.
ThrowingMatch_last(bad) == Max(bad)

\* The replacer is called for the matches in order and its throw ends the
\* replace: the match whose callback throws is the leftmost unresolved one.
ThrowingMatch(bad) == Min(bad)

\* template.replace(this.tokenPattern, callback): either the callback throws
\* 'Token not found', or the substituted text; lookups is the sequence of
\* paths handed to resolveToken.
substitute(cfg, template) ==
    LET ms == tokenPattern(template)
        vals == [k \in 1..Len(ms) |-> resolveToken(cfg, ms[k].path)]
        bad == {k \in 1..Len(ms) : vals[k] \in {Undefined, JNull}}
    IN IF bad # {}
       THEN LET k == ThrowingMatch(bad)
            IN [kind |-> "throw", msg |-> "Token not found", path |-> ms[k].path,
                lookups |-> [j \in 1..k |-> ms[j].path]]
       ELSE LET reps == [k \in 1..Len(ms) |-> Replacement(cfg, vals[k])]
            IN [kind |-> "ok", text |-> Splice(template, ms, reps, 1, 1),
                lookups |-> [j \in 1..Len(ms) |-> ms[j].path]]

\* Mutant: the post-substitution check is missing.
remainingTokens_unchecked(rendered) == <<>>

\* rendered.match(this.tokenPattern): the matches left in the text.
remainingTokens(rendered) == tokenPattern(rendered)

\* Mutant: text that still holds token syntax is substituted a second time.
render_rescan(cfg, template) ==
    LET r == substitute(cfg, template)
    IN IF r.kind = "throw" THEN r
       ELSE IF tokenPattern(r.text) = <<>>
            THEN [kind |-> "return", text |-> r.text, lookups |-> r.lookups]
            ELSE LET r2 == substitute(cfg, r.text)
                 IN IF r2.kind = "throw"
                    THEN [r2 EXCEPT !.lookups = r.lookups \o r2.lookups]
                    ELSE [kind |-> "return", text |-> r2.text,
                          lookups |-> r.lookups \o r2.lookups]

render(cfg, template) ==
    LET r == substitute(cfg, template)
    IN IF r.kind = "throw" THEN r
       ELSE LET rest == remainingTokens(r.text)
            IN IF rest # <<>>
               THEN [kind |-> "throw", msg |-> "Unresolved tokens found",
                     remaining |-> [j \in 1..Len(rest) |->
                                      SubSeq(r.text, rest[j].from, rest[j].to)],
                     lookups |-> r.lookups]
               ELSE [kind |-> "return", text |-> r.text, lookups |-> r.lookups]

(***************************************************************************)
(* Inputs of the renderer: environment maps and templates                  *)
(***************************************************************************)
MaxPieces == 3

K(c) == <<c>>

TokenText(p) == <<"$", "{">> \o p \o <<"}">>

\* tokens: { A: { B: "v" }, T: { V: "${A.B}" }, N: { X: "{k}" } }
EnvNested ==
    [tokens |-> JObj(<<
        <<K("A"), JObj(<< <<K("B"), JStr(<<"v">>)>> >>)>>,
        <<K("T"), JObj(<< <<K("V"), JStr(TokenText(<<"A", ".", "B">>))>> >>)>>,
        <<K("N"), JObj(<< <<K("X"), JStr(<<"{", "k", "}">>)>> >>)>> >>)]

\* tokens: { A: { B: "v" }, T: { V: "wz" } }
EnvPlain ==
    [tokens |-> JObj(<<
        <<K("A"), JObj(<< <<K("B"), JStr(<<"v">>)>> >>)>>,
        <<K("T"), JObj(<< <<K("V"), JStr(<<"w", "z">>)>> >>)>> >>)]

\* tokens: { A: { B: null }, T: "s", N: { X: "" } }
EnvOdd ==
    [tokens |-> JObj(<<
        <<K("A"), JObj(<< <<K("B"), JNull>> >>)>>,
        <<K("T"), JStr(<<"s">>)>>,
        <<K("N"), JObj(<< <<K("X"), JStr(<<>>)>> >>)>> >>)]

\* tokens: {}
EnvEmpty == [tokens |-> JObj(<<>>)]

\* an environment file with no tokens section
EnvNoTokens == [tokens |-> Undefined]

EnvConfigs == {EnvNested, EnvPlain, EnvOdd, EnvEmpty, EnvNoTokens}

TokenPaths ==
    { <<"A", ".", "B">>, <<"T", ".", "V">>, <<"N", ".", "X">>, <<"a", ".", "B">>,
      <<"A">>, <<"A", ".", "B", ".", "C">>, <<"T", ".", "V", ".", "W">>,
      <<"A", ".", ".", "B">>, ConstructorKey, <<"A", ".">> \o ConstructorKey }

Fragments ==
    { TokenText(<<"A", ".", "B">>), TokenText(<<"T", ".", "V">>),
      TokenText(<<"N", ".", "X">>), TokenText(<<"a", ".", "B">>),
      TokenText(<<"A">>), TokenText(ConstructorKey),
      <<"x">>, <<"$">>, <<"{", "B", "}">>, <<"$", "{", "}">> }

\* The template made of the fragments ps, in order.
TemplateOf(ps) == Concat(ps)

(***************************************************************************)
(* Renderer: state machine                                                 *)
(***************************************************************************)
NormIdle == nInput = JNull /\ nOut = NoCall /\ nOut2 = NoCall

InitRender ==
    /\ envConfig \in EnvConfigs
    /\ rTemplate = <<>>
    /\ rOut = NoCall
    /\ tPath = <<>>
    /\ tOut = NoCall
    /\ NormIdle /\ CheckIdle /\ ValidatorIdle /\ HandlerIdle /\ CliIdle /\ ExporterIdle

\* renderer.render(template), the one call made on a freshly built renderer
RenderCall ==
    /\ rOut = NoCall /\ tOut = NoCall
    /\ \E n \in 0..MaxPieces : \E ps \in [1..n -> Fragments] :
           /\ rTemplate' = TemplateOf(ps)
           /\ rOut' = render(envConfig, TemplateOf(ps))
    /\ UNCHANGED <<envConfig, tPath, tOut>>
    /\ UNCHANGED <<normVars, checkVars, validatorVars, handlerVars, cliVars, exporterVars>>

\* renderer.resolveToken(path), the one call made on a freshly built renderer
ResolveTokenCall ==
    /\ rOut = NoCall /\ tOut = NoCall
    /\ \E p \in TokenPaths :
           /\ tPath' = p
           /\ tOut' = [kind |-> "return", value |-> resolveToken(envConfig, p)]
    /\ UNCHANGED <<envConfig, rTemplate, rOut>>
    /\ UNCHANGED <<normVars, checkVars, validatorVars, handlerVars, cliVars, exporterVars>>

NextRender == RenderCall \/ ResolveTokenCall

SpecRender == InitRender /\ [][NextRender]_vars

(***************************************************************************)
(* Renderer: properties                                                    *)
(***************************************************************************)
Rendered == rOut.kind # "none"

RawMatches == tokenPattern(rTemplate)

\* Match k of the raw template does not resolve in envConfig.tokens.
Unresolved(k) == resolveToken(envConfig, RawMatches[k].path) \in {Undefined, JNull}

UnresolvedSet == {k \in 1..Len(RawMatches) : Unresolved(k)}

\* s holds a substring '${' + one or more non-'}' characters + '}'.
HasTokenSyntax(s) ==
    \E i \in 1..(Len(s) - 3) :
        /\ s[i] = "$" /\ s[i + 1] = "{"
        /\ \E j \in (i + 3)..Len(s) :
               /\ s[j] = "}"
               /\ \A m \in (i + 2)..(j - 1) : s[m] # "}"

\* C1: when some placeholder of the template does not resolve, render throws
\* 'Token not found' naming the leftmost unresolved path, and resolveToken was
\* called for the placeholders up to that one and for none to its right.
C1_FailFastLeftmost ==
    (Rendered /\ UnresolvedSet # {}) =>
        LET k == CHOOSE i \in UnresolvedSet : \A j \in UnresolvedSet : i <= j
        IN /\ rOut.kind = "throw"
           /\ rOut.msg = "Token not found"
           /\ rOut.path = RawMatches[k].path
           /\ rOut.lookups = [j \in 1..k |-> RawMatches[j].path]

\* Two unresolved placeholders with different paths, and the throw happened.
C1_Witness ==
    /\ Rendered
    /\ \E i, j \in UnresolvedSet :
           i < j /\ RawMatches[i].path # RawMatches[j].path
    /\ rOut.kind = "throw"
    /\ Len(rOut.lookups) < Len(RawMatches)

\* C2: a text render returns holds no token syntax, and 'Unresolved tokens
\* found' is thrown only for token syntax that remained after substitution.
C2_NoResidualTokens ==
    /\ (rOut.kind = "return" => ~HasTokenSyntax(rOut.text))
    /\ (rOut.kind = "throw" /\ rOut.msg = "Unresolved tokens found") =>
           /\ rOut.remaining # <<>>
           /\ \A j \in 1..Len(rOut.remaining) : HasTokenSyntax(rOut.remaining[j])

\* Every placeholder resolved, token syntax remained, render threw.
C2_Witness ==
    /\ Rendered
    /\ RawMatches # <<>>
    /\ UnresolvedSet = {}
    /\ rOut.kind = "throw"
    /\ rOut.msg = "Unresolved tokens found"

\* The literal text between match k - 1 and match k of the raw template
\* (k = Len + 1: the text after the last match).
Gap(k) ==
    LET from == IF k = 1 THEN 1 ELSE RawMatches[k - 1].to + 1
        to == IF k > Len(RawMatches) THEN Len(rTemplate) ELSE RawMatches[k].from - 1
    IN SubSeq(rTemplate, from, to)

\* The text stored at tokens.<path> for match k.
StoredText(k) == StringOf(resolveToken(envConfig, RawMatches[k].path))

\* The template with each placeholder replaced in place by its stored value.
ExpectedText ==
    Concat([i \in 1..(2 * Len(RawMatches) + 1) |->
              IF i % 2 = 1 THEN Gap((i + 1) \div 2) ELSE StoredText(i \div 2)])

\* C3 as stated: whenever all placeholders resolve, render returns the
\* template with the values substituted in place.
C3_Original ==
    (Rendered /\ UnresolvedSet = {}) =>
        (rOut.kind = "return" /\ rOut.text = ExpectedText)

\* C3 amended: when all placeholders resolve and the substituted text holds
\* no token syntax, render returns the template with each placeholder replaced
\* in place by its stored value and all other characters unchanged (a template
\* without placeholders comes back unchanged); when the substituted text
\* holds token syntax, render throws 'Unresolved tokens found' instead.
C3_SubstitutedInPlace ==
    (Rendered /\ UnresolvedSet = {}) =>
        /\ ~HasTokenSyntax(ExpectedText) =>
               (rOut.kind = "return" /\ rOut.text = ExpectedText)
        /\ HasTokenSyntax(ExpectedText) =>
               (rOut.kind = "throw" /\ rOut.msg = "Unresolved tokens found")
        /\ RawMatches = <<>> => (rOut.kind = "return" /\ rOut.text = rTemplate)

\* Two placeholders substituted between literal text, and render returned.
C3_Witness ==
    /\ Rendered
    /\ Len(RawMatches) >= 2
    /\ rOut.kind = "return"
    /\ rOut.text # rTemplate
    /\ \E k \in 1..(Len(RawMatches) + 1) : Gap(k) # <<>>

\* C4: substitution is one left-to-right pass over the matches of the raw
\* template: resolveToken is called for those paths only, in order, and never
\* for a path that appears only inside a substituted value.
C4_SinglePass ==
    Rendered =>
        /\ Len(rOut.lookups) <= Len(RawMatches)
        /\ \A j \in 1..Len(rOut.lookups) : rOut.lookups[j] = RawMatches[j].path
        /\ rOut.kind = "return" => rOut.text = ExpectedText

\* A substituted value holds ${A.B}, A.B is defined in the environment map,
\* render has run and A.B was not looked up.
C4_Witness ==
    /\ Rendered
    /\ UnresolvedSet = {}
    /\ \E k \in 1..Len(RawMatches) :
           LET inner == tokenPattern(StoredText(k))
           IN /\ inner # <<>>
              /\ resolveToken(envConfig, inner[1].path) \notin {Undefined, JNull}
              /\ \A j \in 1..Len(rOut.lookups) : rOut.lookups[j] # inner[1].path

\* Every segment of the path is an own key of the container reached so far.
RECURSIVE OwnPath(_, _)
OwnPath(value, parts) ==
    \/ parts = <<>>
    \/ /\ IsObj(value)
       /\ Head(parts) \in OwnKeys(value)
       /\ OwnPath(OwnValue(value, Head(parts)), Tail(parts))

\* C5: resolveToken returns a value only when every segment of the path is
\* an explicitly defined key of the container reached so far, and undefined
\* otherwise.
C5_ExactPathOnly ==
    tOut.kind = "return" =>
        (tOut.value # Undefined <=> OwnPath(envConfig.tokens, SplitDot(tPath)))

(***************************************************************************)
(* FlowNormalizer                                                          *)
(***************************************************************************)
fieldsToRemove ==
    {"lastModifiedTime", "createdTime", "lastModifiedBy", "createdBy", "version"}

\* The keys of the modelled documents in the order Array.prototype.sort()
\* puts them (ascending UTF-16 code units).
SortedKeyOrder == <<"a", "createdBy", "version", "x", "y">>

Keys == {SortedKeyOrder[i] : i \in 1..Len(SortedKeyOrder)}

KeyRank(k) == CHOOSE i \in 1..Len(SortedKeyOrder) : SortedKeyOrder[i] = k

\* Mutant: only the fields of the root object are deleted.
removeFields_rootOnly(v) ==
    IF IsObj(v)
    THEN JObj(SelectSeq(v.o, LAMBDA p : p[1] \notin fieldsToRemove))
    ELSE v

\* removeFields of removeMetadataNoise: delete the volatile fields of an
\* object, then descend into every value of the object or array.
RECURSIVE removeFields(_)
removeFields(v) ==
    IF IsObj(v)
    THEN LET kept == SelectSeq(v.o, LAMBDA p : p[1] \notin fieldsToRemove)
         IN JObj([i \in 1..Len(kept) |-> <<kept[i][1], removeFields(kept[i][2])>>])
    ELSE IF IsArr(v)
         THEN JArr([i \in 1..Len(v.a) |-> removeFields(v.a[i])])
         ELSE v

removeMetadataNoise(flowJson) == removeFields(flowJson)

\* Mutant: coordinates are truncated to the multiple of 10 below.
normalizeCoord_floor(coord) ==
    IF coord.t = "num" THEN JNum((coord.n \div 10) * 10) ELSE coord

\* Math.round(coord / 10) * 10 for numbers; Math.round rounds halves up.
normalizeCoord(coord) ==
    IF coord.t = "num" THEN JNum(((coord.n + 5) \div 10) * 10) ELSE coord

RECURSIVE processCoordinates(_)
processCoordinates(v) ==
    IF IsObj(v)
    THEN JObj([i \in 1..Len(v.o) |->
                 <<v.o[i][1],
                   processCoordinates(IF v.o[i][1] \in {"x", "y"}
                                      THEN normalizeCoord(v.o[i][2])
                                      ELSE v.o[i][2])>>])
    ELSE IF IsArr(v)
         THEN JArr([i \in 1..Len(v.a) |-> processCoordinates(v.a[i])])
         ELSE v

normalizeCoordinates(flowJson) == processCoordinates(flowJson)

\* Object.keys(obj).sort(): the pairs of an object in ascending key order.
RECURSIVE SortPairs(_)
SortPairs(o) ==
    IF o = <<>> THEN <<>>
    ELSE LET m == CHOOSE i \in 1..Len(o) :
                      \A j \in 1..Len(o) : KeyRank(o[i][1]) <= KeyRank(o[j][1])
         IN <<o[m]>> \o SortPairs(SubSeq(o, 1, m - 1) \o SubSeq(o, m + 1, Len(o)))

RECURSIVE sortObjectKeys(_)
sortObjectKeys(v) ==
    IF IsArr(v)
    THEN JArr([i \in 1..Len(v.a) |-> sortObjectKeys(v.a[i])])
    ELSE IF IsObj(v)
         THEN LET so == SortPairs(v.o)
              IN JObj([i \in 1..Len(so) |-> <<so[i][1], sortObjectKeys(so[i][2])>>])
         ELSE v

TypeError == [kind |-> "throw", error |-> "TypeError"]

Ok(v) == [kind |-> "return", value |-> v]

\* sortObjects: every key of the root, in sorted order, is deleted and set
\* again to its sorted value.  Object.keys(null) throws; on a non-empty
\* string root the delete of an index throws (class bodies are strict code);
\* a number or an empty string has no keys.
sortObjects(flowJson) ==
    CASE flowJson.t = "null" -> TypeError
      [] flowJson.t = "str" -> IF flowJson.s = "" THEN Ok(flowJson) ELSE TypeError
      [] flowJson.t = "arr" ->
           Ok(JArr([i \in 1..Len(flowJson.a) |-> sortObjectKeys(flowJson.a[i])]))
      [] flowJson.t = "obj" -> Ok(sortObjectKeys(flowJson))
      [] OTHER -> Ok(flowJson)

IsEmptyArr(v) == IsArr(v) /\ v.a = <<>>

\* Mutant: values are tested before they are cleaned, not after.
RECURSIVE cleanObject_testFirst(_)
cleanObject_testFirst(v) ==
    IF IsArr(v)
    THEN LET kept == SelectSeq(v.a, LAMBDA e : e # JNull)
         IN JArr([i \in 1..Len(kept) |-> cleanObject_testFirst(kept[i])])
    ELSE IF IsObj(v)
         THEN LET kept == SelectSeq(v.o, LAMBDA p : p[2] # JNull /\ ~IsEmptyArr(p[2]))
              IN JObj([i \in 1..Len(kept) |->
                         <<kept[i][1], cleanObject_testFirst(kept[i][2])>>])
         ELSE v

\* cleanObject of removeEmptyValues: an array keeps its cleaned elements that
\* are not null; an object keeps the entries whose cleaned value is neither
\* null nor an empty array.
RECURSIVE cleanObject(_)
cleanObject(v) ==
    IF IsArr(v)
    THEN LET cl == [i \in 1..Len(v.a) |-> cleanObject(v.a[i])]
         IN JArr(SelectSeq(cl, LAMBDA e : e # JNull))
    ELSE IF IsObj(v)
         THEN LET cl == [i \in 1..Len(v.o) |-> <<v.o[i][1], cleanObject(v.o[i][2])>>]
              IN JObj(SelectSeq(cl, LAMBDA p : p[2] # JNull /\ ~IsEmptyArr(p[2])))
         ELSE v

\* removeEmptyValues: every key of the root is set to its cleaned value.
removeEmptyValues(flowJson) ==
    IF IsObj(flowJson)
    THEN JObj([i \in 1..Len(flowJson.o) |->
                 <<flowJson.o[i][1], cleanObject(flowJson.o[i][2])>>])
    ELSE IF IsArr(flowJson)
         THEN JArr([i \in 1..Len(flowJson.a) |-> cleanObject(flowJson.a[i])])
         ELSE flowJson

\* normalize works on a deep copy made by JSON.parse(JSON.stringify(...));
\* for the JSON documents modelled here (integers, strings, null, arrays,
\* objects with non-numeric keys) the copy has the same values in the same
\* key order, and the four passes below act on that copy.
normalize(flowJson) ==
    LET noNoise == removeMetadataNoise(flowJson)
        coords == normalizeCoordinates(noNoise)
        sorted == sortObjects(coords)
    IN IF sorted.kind = "throw" THEN sorted
       ELSE Ok(removeEmptyValues(sorted.value))

(***************************************************************************)
(* Inputs of the normalizer: JSON documents                                *)
(***************************************************************************)
MaxNodes == 4

MaxCoord == 16

Leaves == {JNull, JNum(125), JStr("s"), JArr(<<>>), JObj(<<>>)}

\* The keys the enumerated documents draw from: a plain key, a volatile
\* field and a coordinate.
TreeKeys == {"a", "version", "x"}

KeySeqs(n) == {ks \in [1..n -> TreeKeys] : \A i, j \in 1..n : ks[i] = ks[j] => i = j}

\* The objects whose values are the sequence of documents f, under every
\* choice of distinct keys.
ObjectsOver(f) == {JObj([i \in 1..Len(f) |-> <<ks[i], f[i]>>]) : ks \in KeySeqs(Len(f))}

RECURSIVE TreesOfSize(_), ForestsOfSize(_)
\* The sequences of documents with m nodes in all.
ForestsOfSize(m) ==
    IF m = 0 THEN {<<>>}
    ELSE UNION {{<<tr>> \o f : tr \in TreesOfSize(k), f \in ForestsOfSize(m - k)}
                  : k \in 1..m}

\* The documents with exactly n nodes (a leaf or a container is one node).
TreesOfSize(n) ==
    IF n = 1 THEN Leaves
    ELSE LET fs == ForestsOfSize(n - 1)
         IN {JArr(f) : f \in fs} \cup UNION {ObjectsOver(f) : f \in fs}

\* The sequences of documents with at most m nodes in all.
ForestsUpTo(m) == UNION {ForestsOfSize(k) : k \in 0..m}

\* Documents whose only content is a coordinate, at the root and in an
\* object inside an array.
CoordDocs ==
    UNION {{JObj(<< <<k, v>> >>),
            JObj(<< <<"y", v>>, <<"createdBy", JStr("s")>>, <<"x", v>> >>),
            JObj(<< <<"a", JArr(<< JObj(<< <<k, v>>, <<"a", v>> >>) >>)>> >>)}
             : k \in {"x", "y"},
               v \in {JNum(c) : c \in (0 - MaxCoord)..MaxCoord} \cup {JStr("s")}}

\* The documents that are not enumerated by their children: the leaves, the
\* empty string and the coordinate documents.
SpecialDocs == Leaves \cup {JStr("")} \cup CoordDocs

(***************************************************************************)
(* Normalizer: state machine                                               *)
(***************************************************************************)
RenderIdle ==
    /\ envConfig = EnvEmpty
    /\ rTemplate = <<>>
    /\ rOut = NoCall
    /\ tPath = <<>>
    /\ tOut = NoCall

\* The document handed to normalize: any JSON document of at most MaxNodes
\* nodes (an array or an object over its children), or a special document.
InitNormalize ==
    /\ \/ nInput \in SpecialDocs
       \/ \E f \in ForestsUpTo(MaxNodes - 1) :
              \/ nInput = JArr(f)
              \/ nInput \in ObjectsOver(f)
    /\ nOut = NoCall
    /\ nOut2 = NoCall
    /\ RenderIdle /\ CheckIdle /\ ValidatorIdle /\ HandlerIdle /\ CliIdle /\ ExporterIdle

\* normalizer.normalize(flowJson)
NormalizeCall ==
    /\ nOut = NoCall
    /\ nOut' = normalize(nInput)
    /\ UNCHANGED <<nInput, nOut2>>
    /\ UNCHANGED <<renderVars, checkVars, validatorVars, handlerVars, cliVars, exporterVars>>

\* normalizer.normalize applied to a document that normalize returned
NormalizeAgain ==
    /\ nOut.kind = "return"
    /\ nOut2 = NoCall
    /\ nOut2' = normalize(nOut.value)
    /\ UNCHANGED <<nInput, nOut>>
    /\ UNCHANGED <<renderVars, checkVars, validatorVars, handlerVars, cliVars, exporterVars>>

NextNormalize == NormalizeCall \/ NormalizeAgain

SpecNormalize == InitNormalize /\ [][NextNormalize]_vars

(***************************************************************************)
(* Normalizer: properties                                                  *)
(***************************************************************************)
\* C6: normalize is idempotent: normalizing a normalized document returns
\* it again, with the same values in the same key order.
C6_Idempotent ==
    nOut2.kind # "none" => (nOut2.kind = "return" /\ nOut2.value = nOut.value)

\* The first pass changed the document and the second pass has run.
C6_Witness ==
    /\ nOut2.kind = "return"
    /\ nOut.value # nInput
    /\ IsObj(nInput)
    /\ \E i \in 1..Len(nInput.o) : IsObj(nInput.o[i][2]) \/ IsArr(nInput.o[i][2])

\* The pipeline of normalize without its coordinate pass.
Uncoordinated(doc) ==
    LET sorted == sortObjects(removeMetadataNoise(doc))
    IN IF sorted.kind = "throw" THEN sorted ELSE Ok(removeEmptyValues(sorted.value))

\* n is the multiple of 10 nearest to m, the upper one when m is half-way.
NearestTen(m, n) ==
    /\ n % 10 = 0
    /\ n - m <= 5
    /\ m - n < 5

\* out is the document d with exactly its numeric x and y values quantized.
RECURSIVE Quantized(_, _, _)
Quantized(d, out, underXY) ==
    CASE d.t = "num" ->
           /\ out.t = "num"
           /\ IF underXY THEN NearestTen(d.n, out.n) ELSE out.n = d.n
      [] d.t = "arr" ->
           /\ out.t = "arr"
           /\ Len(out.a) = Len(d.a)
           /\ \A i \in 1..Len(d.a) : Quantized(d.a[i], out.a[i], FALSE)
      [] d.t = "obj" ->
           /\ out.t = "obj"
           /\ Len(out.o) = Len(d.o)
           /\ \A i \in 1..Len(d.o) :
                  /\ out.o[i][1] = d.o[i][1]
                  /\ Quantized(d.o[i][2], out.o[i][2], d.o[i][1] \in {"x", "y"})
      [] OTHER -> out = d

\* C7: after normalize every numeric value under a key x or y, at any depth,
\* is the multiple of 10 nearest to its input value (halves rounded up), and
\* non-numeric x/y values and all other numbers are as in the input.
C7_CoordinatesQuantized ==
    nOut.kind = "return" => Quantized(Uncoordinated(nInput).value, nOut.value, FALSE)

\* A half-way coordinate inside an object inside an array was normalized.
C7_Witness ==
    /\ nOut.kind = "return"
    /\ nInput = JObj(<< <<"a", JArr(<< JObj(<< <<"y", JNum(15)>>, <<"a", JNum(15)>> >>) >>)>> >>)
    /\ nOut.value = JObj(<< <<"a", JArr(<< JObj(<< <<"a", JNum(15)>>, <<"y", JNum(20)>> >>) >>)>> >>)

\* The keys used anywhere in a document.
RECURSIVE KeysIn(_)
KeysIn(v) ==
    IF IsObj(v)
    THEN OwnKeys(v) \cup UNION {KeysIn(v.o[i][2]) : i \in 1..Len(v.o)}
    ELSE IF IsArr(v)
         THEN UNION {KeysIn(v.a[i]) : i \in 1..Len(v.a)}
         ELSE {}

\* C8: the output of normalize holds none of the volatile keys at any depth.
C8_NoVolatileKeys ==
    nOut.kind = "return" => KeysIn(nOut.value) \cap fieldsToRemove = {}

\* A volatile key inside an object inside an array, and normalize returned.
C8_Witness ==
    /\ nOut.kind = "return"
    /\ IsObj(nInput)
    /\ \E i \in 1..Len(nInput.o) :
           /\ IsArr(nInput.o[i][2])
           /\ \E j \in 1..Len(nInput.o[i][2].a) :
                  "version" \in KeysIn(nInput.o[i][2].a[j])

\* v holds a null, an empty array or an empty object, itself included.
RECURSIVE HasEmpty(_)
HasEmpty(v) ==
    \/ v = JNull
    \/ IsArr(v) /\ (v.a = <<>> \/ \E i \in 1..Len(v.a) : HasEmpty(v.a[i]))
    \/ IsObj(v) /\ (v.o = <<>> \/ \E i \in 1..Len(v.o) : HasEmpty(v.o[i][2]))

\* C9: the output of normalize holds no null, no empty array and no empty
\* object at any depth, from the values of the top level downwards.
C9_NoEmptyValues ==
    nOut.kind = "return" =>
        /\ IsObj(nOut.value) =>
               \A i \in 1..Len(nOut.value.o) : ~HasEmpty(nOut.value.o[i][2])
        /\ IsArr(nOut.value) =>
               \A i \in 1..Len(nOut.value.a) : ~HasEmpty(nOut.value.a[i])

\* C10: normalize never raises an error, whatever JSON value it is given.
C10_Total ==
    nOut.kind # "none" => nOut.kind = "return"

(***************************************************************************)
(* Text and JSON primitives used by the checks                             *)
(***************************************************************************)
Digits == {"0", "1", "2", "3", "4", "5", "6", "7", "8", "9"}

Lower ==
    {"a", "b", "c", "d", "e", "f", "g", "h", "i", "j", "k", "l", "m",
     "n", "o", "p", "q", "r", "s", "t", "u", "v", "w", "x", "y", "z"}

Upper ==
    {"A", "B", "C", "D", "E", "F", "G", "H", "I", "J", "K", "L", "M",
     "N", "O", "P", "Q", "R", "S", "T", "U", "V", "W", "X", "Y", "Z"}

\* the character class [a-zA-Z0-9-]
AlnumDash == Lower \cup Upper \cup Digits \cup {"-"}

\* String.prototype.split(c) for a one-character separator c
RECURSIVE SplitOn(_, _)
SplitOn(p, c) ==
    IF \A i \in 1..Len(p) : p[i] # c
    THEN <<p>>
    ELSE LET d == Min({i \in 1..Len(p) : p[i] = c})
         IN <<SubSeq(p, 1, d - 1)>> \o SplitOn(SubSeq(p, d + 1, Len(p)), c)

\* sub occurs in s at position i (1-based)
OccursAt(s, sub, i) ==
    /\ i >= 1
    /\ i + Len(sub) - 1 <= Len(s)
    /\ \A j \in 1..Len(sub) : s[i + j - 1] = sub[j]

\* String.prototype.includes
includes(s, sub) == \E i \in 1..(Len(s) - Len(sub) + 1) : OccursAt(s, sub, i)

\* String.prototype.startsWith
startsWith(s, sub) == OccursAt(s, sub, 1)

\* Array.prototype.join(sep) over texts
RECURSIVE JoinWith(_, _)
JoinWith(ss, sep) ==
    IF ss = <<>> THEN <<>>
    ELSE IF Len(ss) = 1 THEN ss[1]
    ELSE ss[1] \o sep \o JoinWith(Tail(ss), sep)

DigitChar(d) ==
    CASE d = 0 -> "0" [] d = 1 -> "1" [] d = 2 -> "2" [] d = 3 -> "3"
      [] d = 4 -> "4" [] d = 5 -> "5" [] d = 6 -> "6" [] d = 7 -> "7"
      [] d = 8 -> "8" [] d = 9 -> "9"

\* the decimal text of a non-negative integer
RECURSIVE NumberText(_)
NumberText(n) ==
    IF n < 10 THEN <<DigitChar(n)>>
    ELSE NumberText(n \div 10) \o <<DigitChar(n % 10)>>

\* JSON string escaping of the quote and the backslash
RECURSIVE Escaped(_)
Escaped(s) ==
    IF s = <<>> THEN <<>>
    ELSE IF Len(s) = 1
    THEN (IF s[1] \in {"\"", "\\"} THEN <<"\\", s[1]>> ELSE s)
    ELSE Escaped(SubSeq(s, 1, Len(s) \div 2))
         \o Escaped(SubSeq(s, Len(s) \div 2 + 1, Len(s)))

Quoted(s) == <<"\"">> \o Escaped(s) \o <<"\"">>

\* Object.entries(obj): index/value pairs of an array, key/value pairs of an
\* object
entries(obj) ==
    IF obj.t = "arr" THEN [i \in 1..Len(obj.a) |-> <<NumberText(i - 1), obj.a[i]>>]
    ELSE obj.o

\* JSON.stringify(value) without indentation
RECURSIVE stringify(_)
stringify(v) ==
    CASE v.t = "null" -> <<"n", "u", "l", "l">>
      [] v.t = "num" -> NumberText(v.n)
      [] v.t = "str" -> Quoted(v.s)
      [] v.t = "arr" ->
           <<"[">> \o JoinWith([i \in 1..Len(v.a) |-> stringify(v.a[i])], <<",">>)
           \o <<"]">>
      [] v.t = "obj" ->
           <<"{">>
           \o JoinWith([i \in 1..Len(v.o) |->
                           Quoted(v.o[i][1]) \o <<":">> \o stringify(v.o[i][2])],
                       <<",">>)
           \o <<"}">>

(***************************************************************************)
(* TemplateRenderer.validateRenderedFlow                                   *)
(***************************************************************************)
requiredFields == <<<<"n", "a", "m", "e">>, <<"t", "y", "p", "e">>, <<"c", "o", "n", "t", "e", "n", "t">>>>

\* flowJson[field] for a non-null flowJson
Field(flowJson, field) ==
    IF flowJson.t = "obj" /\ field \in OwnKeys(flowJson)
    THEN OwnValue(flowJson, field)
    ELSE Undefined

\* !value for the JSON values
Falsy(v) == v \in {Undefined, JNull, JStr(<<>>), JNum(0)}

Violation(msg, path, value) == [msg |-> msg, path |-> path, value |-> value]

\* path ? `${path}.${key}` : key
ChildPath(path, key) == IF path # <<>> THEN path \o <<".">> \o key ELSE key

\* /^arn:aws:[a-zA-Z0-9-]+:[a-zA-Z0-9-]*:\d{12}:[a-zA-Z0-9-\/]+$/ : no class of
\* the pattern holds ':', so the colons of a matching text are exactly the
\* five of the pattern.
arnPattern(s) ==
    LET seg == SplitOn(s, ":")
    IN /\ Len(seg) = 6
       /\ seg[1] = <<"a", "r", "n">>
       /\ seg[2] = <<"a", "w", "s">>
       /\ Len(seg[3]) >= 1 /\ \A i \in 1..Len(seg[3]) : seg[3][i] \in AlnumDash
       /\ \A i \in 1..Len(seg[4]) : seg[4][i] \in AlnumDash
       /\ Len(seg[5]) = 12 /\ \A i \in 1..12 : seg[5][i] \in Digits
       /\ Len(seg[6]) >= 1
       /\ \A i \in 1..Len(seg[6]) : seg[6][i] \in AlnumDash \cup {"/"}

\* validateArns(obj, errors, path): the errors it pushes, in order
RECURSIVE validateArns(_, _)
validateArns(obj, path) ==
    IF obj.t = "str"
    THEN IF includes(obj.s, <<":", "a", "r", "n", ":", "a", "w", "s", ":">>) /\ ~arnPattern(obj.s)
         THEN <<Violation("Invalid ARN format", path, obj.s)>>
         ELSE <<>>
    ELSE IF obj.t \in {"arr", "obj"}
    THEN Concat([i \in 1..Len(entries(obj)) |->
                    validateArns(entries(obj)[i][2],
                                 ChildPath(path, entries(obj)[i][1]))])
    ELSE <<>>

\* Mutant: the first digit may be 0.
e164Pattern_anyFirstDigit(s) ==
    /\ Len(s) >= 3 /\ Len(s) <= 16
    /\ s[1] = "+"
    /\ \A i \in 2..Len(s) : s[i] \in Digits

\* /^\+[1-9]\d{1,14}$/
e164Pattern(s) ==
    /\ Len(s) >= 3 /\ Len(s) <= 16
    /\ s[1] = "+"
    /\ s[2] \in Digits \ {"0"}
    /\ \A i \in 3..Len(s) : s[i] \in Digits

\* validatePhoneNumbers(obj, errors, path): the errors it pushes, in order
RECURSIVE validatePhoneNumbers(_, _)
validatePhoneNumbers(obj, path) ==
    IF obj.t = "str"
    THEN IF startsWith(obj.s, <<"+">>) /\ ~e164Pattern(obj.s)
         THEN <<Violation("Invalid E.164 phone number", path, obj.s)>>
         ELSE <<>>
    ELSE IF obj.t \in {"arr", "obj"}
    THEN Concat([i \in 1..Len(entries(obj)) |->
                    validatePhoneNumbers(entries(obj)[i][2],
                                         ChildPath(path, entries(obj)[i][1]))])
    ELSE <<>>

\* the forEach over requiredFields
MissingFields(flowJson) ==
    Concat([i \in 1..Len(requiredFields) |->
               IF Falsy(Field(flowJson, requiredFields[i]))
               THEN <<Violation("Missing required field", requiredFields[i], <<>>)>>
               ELSE <<>>])

\* jsonStr.match(this.tokenPattern) and the error built from the matches
UnresolvedTokens(flowJson) ==
    LET jsonStr == stringify(flowJson)
        ms == tokenPattern(jsonStr)
    IN IF ms # <<>>
       THEN <<Violation("Unresolved tokens", <<>>,
                        JoinWith([k \in 1..Len(ms) |->
                                     SubSeq(jsonStr, ms[k].from, ms[k].to)],
                                 <<",", " ">>))>>
       ELSE <<>>

\* flowJson[field] on null throws a TypeError before any check has run;
\* otherwise the four checks fill errors and one Error carries them all.
validateRenderedFlow(flowJson) ==
    IF flowJson = JNull
    THEN [kind |-> "throw", msg |-> "TypeError", errors |-> <<>>]
    ELSE LET errs == MissingFields(flowJson) \o UnresolvedTokens(flowJson)
                     \o validateArns(flowJson, <<>>)
                     \o validatePhoneNumbers(flowJson, <<>>)
         IN IF Len(errs) > 0
            THEN [kind |-> "throw", msg |-> "Validation failed", errors |-> errs]
            ELSE [kind |-> "return", msg |-> "", errors |-> <<>>]

(***************************************************************************)
(* validateRenderedFlow: the artifacts handed to it                        *)
(***************************************************************************)
MaxValues == 3

Account == <<"1", "2", "3", "4", "5", "6", "7", "8", "9", "0", "1", "2">>

ConnectArn == <<"a", "r", "n", ":", "a", "w", "s", ":", "c", "o", "n", "n", "e", "c",
      "t", ":", "u", "s", "-", "e", "a", "s", "t", "-", "1", ":">> \o Account \o <<":", "i", "n", "s", "t", "a", "n", "c", "e", "/", "a", "b", "c">>

LambdaArn == <<"a", "r", "n", ":", "a", "w", "s", ":", "l", "a", "m", "b", "d", "a",
      ":", "u", "s", "-", "e", "a", "s", "t", "-", "1", ":">> \o Account \o <<":", "f", "u", "n", "c", "t", "i", "o", "n", ":", "a", "u", "t", "h">>

\* the text of the test 'should validate ARN formats'
BadArn == <<"a", "r", "n", ":", "a", "w", "s", ":", "l", "a", "m", "b", "d", "a",
      ":", "i", "n", "v", "a", "l", "i", "d", "-", "f", "o", "r", "m",
      "a", "t">>

EmbeddedBadArn == <<"s", "e", "e", ":", "a", "r", "n", ":", "a", "w", "s", ":", "l", "a",
      "m", "b", "d", "a", ":", "b", "a", "d">>

EmbeddedOkArn == <<"a", "r", "n", ":", "a", "w", "s", ":", "a", "r", "n", ":", "a", "w",
      "s", ":">> \o Account \o <<":", "r", "e", "s">>

GoodPhone == <<"+", "1", "5", "5", "5", "1", "2", "3", "4", "5", "6", "7">>

ZeroPhone == <<"+", "0", "1", "2", "3">>

BarePhone == <<"5", "5", "5", "1", "2", "3", "4", "5", "6", "7">>

\* '+' followed by n times the digit 1
PlusOnes(n) == <<"+">> \o [i \in 1..n |-> "1"]

ValuePool ==
    { ConnectArn, BadArn, EmbeddedBadArn, EmbeddedOkArn, GoodPhone,
      ZeroPhone, BarePhone, TokenText(<<"A", ".", "B">>) }

BoundaryTexts ==
    { LambdaArn, <<>>, <<"+">>, PlusOnes(1), PlusOnes(2), PlusOnes(15),
      PlusOnes(16), <<"+", "1", "a", "2">>, <<"+", "1", "2", " ">>, <<"a", "\\", "\"", "b", "\\", "\\", "c">> }

ValueKey(i) == <<"k">> \o NumberText(i)

\* the values under their own keys of one object
FlatContent(ss) == JObj([i \in 1..Len(ss) |-> <<ValueKey(i), JStr(ss[i])>>])

\* the values as parameters of the blocks of an actions array
DeepContent(ss) ==
    JObj(<<<<<<"a", "c", "t", "i", "o", "n", "s">>,
             JArr([i \in 1..Len(ss) |->
                      JObj(<<<<<<"p", "a", "r", "a", "m", "e", "t", "e", "r", "s">>, JObj(<<<<<<"v">>, JStr(ss[i])>>>>)>>>>)])>>>>)

\* the leading fields of an artifact: complete, without name, with an empty
\* type
Headers ==
    { <<<<<<"n", "a", "m", "e">>, JStr(<<"F">>)>>, <<<<"t", "y", "p", "e">>, JStr(<<"C", "O", "N", "T", "A", "C", "T", "_", "F", "L", "O", "W">>)>>>>,
      <<<<<<"t", "y", "p", "e">>, JStr(<<"C", "O", "N", "T", "A", "C", "T", "_", "F", "L", "O", "W">>)>>>>,
      <<<<<<"n", "a", "m", "e">>, JStr(<<"F">>)>>, <<<<"t", "y", "p", "e">>, JStr(<<>>)>>>> }

Artifact(h, content) == JObj(h \o <<<<<<"c", "o", "n", "t", "e", "n", "t">>, content>>>>)

\* artifacts that are not an object with content, or hold one boundary text
SpecialArtifacts ==
    {JNull, JNum(7), JArr(<<>>), JObj(<<>>)}
    \cup {JStr(s) : s \in BoundaryTexts}
    \cup {JObj(h) : h \in Headers}
    \cup {Artifact(h, JStr(s)) : h \in Headers, s \in BoundaryTexts}

(***************************************************************************)
(* validateRenderedFlow: state machine                                     *)
(***************************************************************************)
InitCheck ==
    /\ \/ vFlow \in SpecialArtifacts
       \/ \E n \in 0..MaxValues : \E ss \in [1..n -> ValuePool] : \E h \in Headers :
              \/ vFlow = Artifact(h, FlatContent(ss))
              \/ vFlow = Artifact(h, DeepContent(ss))
    /\ vOut = NoCall
    /\ RenderIdle /\ NormIdle /\ ValidatorIdle /\ HandlerIdle /\ CliIdle /\ ExporterIdle

\* renderer.validateRenderedFlow(flowJson, flowName)
ValidateRenderedFlowCall ==
    /\ vOut = NoCall
    /\ vOut' = validateRenderedFlow(vFlow)
    /\ UNCHANGED vFlow
    /\ UNCHANGED <<renderVars, normVars, validatorVars, handlerVars, cliVars, exporterVars>>

NextCheck == ValidateRenderedFlowCall

SpecCheck == InitCheck /\ [][NextCheck]_vars

(***************************************************************************)
(* validateRenderedFlow: properties                                        *)
(***************************************************************************)
Checked == vOut.kind # "none"

\* every string value of v, at any depth, with the path that leads to it
RECURSIVE StringLeaves(_, _)
StringLeaves(v, path) ==
    IF v.t = "str" THEN {[path |-> path, s |-> v.s]}
    ELSE IF v.t \in {"arr", "obj"}
    THEN UNION {StringLeaves(entries(v)[i][2], ChildPath(path, entries(v)[i][1])) :
                  i \in 1..Len(entries(v))}
    ELSE {}

\* the violations of one kind that the thrown error lists
Listed(msg) ==
    {[path |-> vOut.errors[i].path, s |-> vOut.errors[i].value] :
        i \in {j \in 1..Len(vOut.errors) : vOut.errors[j].msg = msg}}

\* required fields that the artifact does not carry with a non-empty value
Missing(v) ==
    {requiredFields[i] : i \in {j \in 1..Len(requiredFields) :
                                  \/ v.t # "obj"
                                  \/ requiredFields[j] \notin OwnKeys(v)
                                  \/ Falsy(OwnValue(v, requiredFields[j]))}}

\* C11: validateRenderedFlow evaluates every check before failing: it returns
\* normally iff no check finds a violation, and otherwise throws the one
\* 'Validation failed' error, which lists every missing field, the residual
\* token syntax, every ARN violation and every phone violation.
C11_FailLoud ==
    Checked =>
        LET arns == validateArns(vFlow, <<>>)
            phones == validatePhoneNumbers(vFlow, <<>>)
            residual == HasTokenSyntax(stringify(vFlow))
            clean == Missing(vFlow) = {} /\ ~residual /\ arns = <<>> /\ phones = <<>>
        IN /\ (vOut.kind = "return") <=> clean
           /\ ~clean =>
                /\ vOut.kind = "throw"
                /\ vOut.msg = "Validation failed"
                /\ {vOut.errors[i].path :
                       i \in {j \in 1..Len(vOut.errors) :
                                vOut.errors[j].msg = "Missing required field"}}
                   = Missing(vFlow)
                /\ residual <=> \E i \in 1..Len(vOut.errors) :
                                    vOut.errors[i].msg = "Unresolved tokens"
                /\ \A i \in 1..Len(arns) :
                       \E j \in 1..Len(vOut.errors) : vOut.errors[j] = arns[i]
                /\ \A i \in 1..Len(phones) :
                       \E j \in 1..Len(vOut.errors) : vOut.errors[j] = phones[i]

\* C12: every string value of the artifact, at any depth, that contains
\* 'arn:aws:' and does not match the ARN grammar is listed as an
\* 'Invalid ARN format' violation of the thrown error.
C12_EveryArnChecked ==
    Checked =>
        \A l \in StringLeaves(vFlow, <<>>) :
            (includes(l.s, <<"a", "r", "n", ":", "a", "w", "s", ":">>) /\ ~arnPattern(l.s)) =>
                (vOut.kind = "throw" /\ l \in Listed("Invalid ARN format"))

\* '+' followed by one digit 1-9 and 1 to 14 further digits
IsE164(s) ==
    \E n \in 1..14 :
        /\ Len(s) = n + 2
        /\ s[1] = "+"
        /\ s[2] \in {"1", "2", "3", "4", "5", "6", "7", "8", "9"}
        /\ \A i \in 3..(n + 2) : s[i] \in Digits

\* C13: the phone violations listed are exactly the string values that start
\* with '+' and are not E.164, each listed once; a value that does not start
\* with '+' is never listed.
C13_PhoneExactly ==
    Checked =>
        LET bad == {l \in StringLeaves(vFlow, <<>>) :
                      Len(l.s) >= 1 /\ l.s[1] = "+" /\ ~IsE164(l.s)}
        IN /\ Listed("Invalid E.164 phone number") = bad
           /\ Cardinality({j \in 1..Len(vOut.errors) :
                             vOut.errors[j].msg = "Invalid E.164 phone number"})
              = Cardinality(bad)

\* '+0123' is listed while '+15551234567' and '5551234567' of the same
\* artifact are not.
C13_Witness ==
    /\ Checked
    /\ \E l \in Listed("Invalid E.164 phone number") :
           l.s = ZeroPhone /\ Len(l.path) > 10
    /\ \E l \in StringLeaves(vFlow, <<>>) : l.s = GoodPhone
    /\ \E l \in StringLeaves(vFlow, <<>>) : l.s = BarePhone
    /\ \A l \in Listed("Invalid E.164 phone number") : l.s = ZeroPhone

(***************************************************************************)
(* FlowValidator (scripts/validate.js)                                     *)
(***************************************************************************)
envFiles == <<"dev.yaml", "test.yaml", "prod.yaml">>

\* one entry of this.errors / this.warnings: the message, the file or flow it
\* is about and the token path or context it names
Finding(msg, file, context) == [msg |-> msg, file |-> file, context |-> context]

\* what a file of the environment directory holds: nothing (no such file),
\* text that yaml.parse rejects, or the configuration yaml.parse returns
NoFile == [kind |-> "missing", config |-> JNull]

BadYaml == [kind |-> "unparseable", config |-> JNull]

YamlFile(config) == [kind |-> "yaml", config |-> config]

HexDigits == Digits \cup {"a", "b", "c", "d", "e", "f", "A", "B", "C", "D", "E", "F"}

\* Joi.string().uuid() on the hyphenated form 8-4-4-4-12
IsUuid(s) ==
    /\ Len(s) = 36
    /\ \A i \in 1..36 :
           IF i \in {9, 14, 19, 24} THEN s[i] = "-" ELSE s[i] \in HexDigits

\* Joi.object().pattern(Joi.string(), Joi.string()...) for a token category:
\* absent, or a map whose values are strings
CategoryIsMap(tokens, category) ==
    category \in OwnKeys(tokens) =>
        LET c == OwnValue(tokens, category)
        IN /\ c.t = "obj"
           /\ \A i \in 1..Len(c.o) : c.o[i][2].t = "str"

\* the string values of a token category, which its .pattern(re) tests
CategoryValues(tokens, category) ==
    IF category \in OwnKeys(tokens) /\ OwnValue(tokens, category).t = "obj"
    THEN LET c == OwnValue(tokens, category)
         IN {c.o[i][2].s : i \in {j \in 1..Len(c.o) : c.o[j][2].t = "str"}}
    ELSE {}

\* envSchema.validate(config, { allowUnknown: true }) reports no error
envSchema(config) ==
    /\ IsUuid(config.connect.instance_id)
    /\ startsWith(config.connect.instance_arn, <<"a", "r", "n", ":", "a", "w", "s", ":", "c", "o", "n", "n", "e", "c", "t", ":">>)
    /\ config.connect.region # <<>>
    /\ config.tokens.t = "obj"
    /\ \A cat \in {<<"L", "a", "m", "b", "d", "a">>, <<"Q", "u", "e", "u", "e">>, <<"P", "r", "o", "m", "p", "t">>,
                    <<"L", "e", "x">>, <<"P", "h", "o", "n", "e", "N", "u", "m", "b", "e", "r">>} :
           CategoryIsMap(config.tokens, cat)
    /\ \A s \in CategoryValues(config.tokens, <<"L", "a", "m", "b", "d", "a">>) :
           startsWith(s, <<"a", "r", "n", ":", "a", "w", "s", ":", "l", "a", "m", "b", "d", "a", ":">>)
    /\ \A cat \in {<<"Q", "u", "e", "u", "e">>, <<"P", "r", "o", "m", "p", "t">>, <<"L", "e", "x">>} :
           \A s \in CategoryValues(config.tokens, cat) : startsWith(s, <<"a", "r", "n", ":", "a", "w", "s", ":", "c", "o", "n", "n", "e", "c", "t", ":">>)
    /\ \A s \in CategoryValues(config.tokens, <<"P", "h", "o", "n", "e", "N", "u", "m", "b", "e", "r">>) :
           e164Pattern(s)

\* the [tokenType, tokenName, value] triples visited by the two nested
\* Object.entries loops over config.tokens, restricted to the given types
TokenTriples(config, types) ==
    Concat([i \in 1..Len(config.tokens.o) |->
               LET tokenType == config.tokens.o[i][1]
                   tokens == config.tokens.o[i][2]
               IN IF tokenType \in types /\ tokens.t = "obj"
                  THEN [j \in 1..Len(tokens.o) |->
                           <<tokenType, tokens.o[j][1], tokens.o[j][2]>>]
                  ELSE <<>>])

\* arn.match(/arn:aws:[^:]+:([^:]*)/)[1] for a value that starts with
\* 'arn:aws:': the segment after the service, or nothing when the service
\* segment is empty or last
ArnRegion(arn) ==
    LET seg == SplitOn(arn, ":")
    IN IF Len(seg) >= 4 /\ seg[3] # <<>> THEN seg[4] ELSE <<>>

validateConsistentRegion(config, envPath) ==
    LET all == TokenTriples(config, {config.tokens.o[i][1] : i \in 1..Len(config.tokens.o)})
    IN Concat([i \in 1..Len(all) |->
                  IF /\ all[i][3].t = "str"
                     /\ startsWith(all[i][3].s, <<"a", "r", "n", ":",
                                                  "a", "w", "s", ":">>)
                     /\ ArnRegion(all[i][3].s) # <<>>
                     /\ ArnRegion(all[i][3].s) # config.connect.region
                  THEN <<Finding("ARN region mismatch", envPath,
                                 all[i][1] \o <<".">> \o all[i][2])>>
                  ELSE <<>>])

\* checkConnectArn: the ARN holds '/instance/' but not '/instance/<id>'
checkConnectArn(arn, instanceId) ==
    /\ includes(arn, <<"/", "i", "n", "s", "t", "a", "n", "c", "e", "/">>)
    /\ ~includes(arn, <<"/", "i", "n", "s", "t", "a", "n", "c", "e", "/">> \o instanceId)

\* ['Queue', 'Prompt', 'Lex']
connectTokenTypes == <<<<"Q", "u", "e", "u", "e">>, <<"P", "r", "o", "m", "p", "t">>, <<"L", "e", "x">>>>

validateInstanceConsistency(config, envPath) ==
    LET all == Concat([k \in 1..Len(connectTokenTypes) |->
                          TokenTriples(config, {connectTokenTypes[k]})])
    IN Concat([i \in 1..Len(all) |->
                  IF /\ all[i][3].t = "str"
                     /\ includes(all[i][3].s, <<"a", "r", "n", ":",
                                                "a", "w", "s", ":", "c", "o",
                                                "n", "n", "e", "c", "t", ":">>)
                     /\ checkConnectArn(all[i][3].s, config.connect.instance_id)
                  THEN <<Finding("Instance ID mismatch", envPath,
                                 all[i][1] \o <<".">> \o all[i][2])>>
                  ELSE <<>>])

\* validateEnvironmentConfig(envPath): the findings it adds
validateEnvironmentConfig(file, envPath) ==
    IF file.kind = "unparseable"
    THEN [errors |-> <<Finding("Failed to validate environment config", envPath, <<>>)>>,
          warnings |-> <<>>]
    ELSE IF ~envSchema(file.config)
    THEN [errors |-> <<Finding("Invalid environment config", envPath, <<>>)>>,
          warnings |-> <<>>]
    ELSE [errors |-> validateInstanceConsistency(file.config, envPath),
          warnings |-> validateConsistentRegion(file.config, envPath)]

\* validateEnvironmentConfigs(envDir)
validateEnvironmentConfigs(env) ==
    LET each == [i \in 1..Len(envFiles) |->
                    IF env[i].kind # "missing"
                    THEN validateEnvironmentConfig(env[i], envFiles[i])
                    ELSE [errors |-> <<Finding("Environment file not found", envFiles[i], <<>>)>>,
                          warnings |-> <<>>]]
    IN [errors |-> Concat([i \in 1..Len(envFiles) |-> each[i].errors]),
        warnings |-> Concat([i \in 1..Len(envFiles) |-> each[i].warnings])]

\* const tokenPattern = /\\$\\{([^}]+)\\}/g and the exec loop over it: the
\* captured groups of the matches from position i on.  The pattern reads: a
\* backslash, the end of the input ($), a backslash, '{', one or more
\* characters other than '}' (the group), a backslash, '}'.
RECURSIVE ExecFrom(_, _)
ExecFrom(s, i) ==
    LET ends(p) == {j \in (p + 4)..(Len(s) - 1) :
                      /\ s[j] = "\\" /\ s[j + 1] = "}"
                      /\ \A m \in (p + 3)..(j - 1) : s[m] # "}"}
        starts == {p \in i..Len(s) :
                     /\ s[p] = "\\"
                     /\ p + 1 = Len(s) + 1
                     /\ p + 2 <= Len(s)
                     /\ s[p + 1] = "\\" /\ s[p + 2] = "{"
                     /\ ends(p) # {}}
    IN IF starts = {} THEN <<>>
       ELSE LET p == Min(starts)
                j == Max(ends(p))
            IN <<SubSeq(s, p + 3, j - 1)>> \o ExecFrom(s, j + 2)

validServices ==
    {<<"L", "a", "m", "b", "d", "a">>, <<"Q", "u", "e", "u", "e">>, <<"P", "r", "o", "m", "p", "t">>, <<"L", "e", "x">>, <<"P", "h", "o", "n",
                                                   "e", "N", "u", "m", "b",
                                                   "e", "r">>}

\* validateTokenUsage(templateContent, flowName)
validateTokenUsage(templateContent, flowName) ==
    LET tokens == ExecFrom(templateContent, 1)
    IN [errors |->
            Concat([i \in 1..Len(tokens) |->
                       IF Len(SplitDot(tokens[i])) < 2
                       THEN <<Finding("Invalid token format", flowName, tokens[i])>>
                       ELSE <<>>]),
        warnings |->
            Concat([i \in 1..Len(tokens) |->
                       IF SplitDot(tokens[i])[1] \notin validServices
                       THEN <<Finding("Unknown service in token", flowName,
                                      SplitDot(tokens[i])[1])>>
                       ELSE <<>>])]

\* templateContent.indexOf(sub), 1-based; 0 when sub does not occur
indexOf(s, sub) ==
    IF includes(s, sub)
    THEN Min({i \in 1..(Len(s) - Len(sub) + 1) : OccursAt(s, sub, i)})
    ELSE 0

\* validateFlowStructure(templateContent, flowName): warnings only
validateFlowStructure(templateContent, flowName) ==
    (IF ~includes(templateContent, <<"S", "t", "a", "r", "t", "F", "l",
                                     "o", "w", "E", "x", "e", "c", "u", "t",
                                     "i", "o", "n">>)
     THEN <<Finding("Flow may be missing block", flowName, <<"S", "t",
                                                             "a", "r", "t",
                                                             "F", "l", "o",
                                                             "w", "E", "x",
                                                             "e", "c", "u",
                                                             "t", "i", "o",
                                                             "n">>)>>
     ELSE <<>>)
    \o (IF ~includes(templateContent, <<"D", "i", "s", "c", "o", "n",
                                        "n", "e", "c", "t", "P", "a", "r",
                                        "t", "i", "c", "i", "p", "a", "n", "t">>)
        THEN <<Finding("Flow may be missing block", flowName, <<"D",
                                                                "i", "s",
                                                                "c", "o",
                                                                "n", "n",
                                                                "e", "c",
                                                                "t", "P",
                                                                "a", "r",
                                                                "t", "i",
                                                                "c", "i",
                                                                "p", "a",
                                                                "n", "t">>)>>
        ELSE <<>>)
    \o (IF /\ includes(templateContent, <<"D", "i", "s", "c", "o", "n",
                                          "n", "e", "c", "t", "P", "a", "r",
                                          "t", "i", "c", "i", "p", "a", "n",
                                          "t">>)
           /\ indexOf(templateContent, <<"D", "i", "s", "c", "o", "n",
                                         "n", "e", "c", "t", "P", "a", "r",
                                         "t", "i", "c", "i", "p", "a", "n",
                                         "t">>) - 1 < 100
        THEN <<Finding("Flow may disconnect too early", flowName, <<>>)>>
        ELSE <<>>)

\* a flow directory: its name and its flow.json.tmpl, if any, with the text
\* and whether JSON.parse accepts the text
NoTemplate == [kind |-> "missing", text |-> <<>>, parses |-> FALSE]

TemplateFile(text, parses) == [kind |-> "text", text |-> text, parses |-> parses]

\* validateFlowDirectory(flowDir, flowName)
validateFlowDirectory(tmpl, flowName) ==
    IF tmpl.kind = "missing"
    THEN [errors |-> <<Finding("Flow template not found", flowName, <<>>)>>,
          warnings |-> <<>>]
    ELSE IF ~tmpl.parses /\ ~includes(tmpl.text, <<"$", "{">>)
    THEN [errors |-> <<Finding("Invalid JSON in flow template", flowName, <<>>)>>,
          warnings |-> <<>>]
    ELSE [errors |-> validateTokenUsage(tmpl.text, flowName).errors,
          warnings |-> validateTokenUsage(tmpl.text, flowName).warnings
                       \o validateFlowStructure(tmpl.text, flowName)]

\* validateFlowTemplates(flowsDir)
validateFlowTemplates(flows) ==
    IF ~flows.exists
    THEN [errors |-> <<Finding("Flows directory not found", "flows", <<>>)>>,
          warnings |-> <<>>]
    ELSE LET each == [k \in 1..Len(flows.dirs) |->
                         validateFlowDirectory(flows.dirs[k].template, flows.dirs[k].name)]
         IN [errors |-> Concat([k \in 1..Len(flows.dirs) |-> each[k].errors]),
             warnings |-> Concat([k \in 1..Len(flows.dirs) |-> each[k].warnings])]

\* tokens.add(x) for each x of xs, in order, on the insertion-ordered Set acc
RECURSIVE AddAll(_, _)
AddAll(acc, xs) ==
    IF xs = <<>> THEN acc
    ELSE AddAll(IF \E i \in 1..Len(acc) : acc[i] = Head(xs)
                THEN acc ELSE Append(acc, Head(xs)),
                Tail(xs))

\* collectUsedTokens(flowsDir) for an existing flows directory
collectUsedTokens(flows) ==
    AddAll(<<>>, Concat([k \in 1..Len(flows.dirs) |->
                           IF flows.dirs[k].template.kind = "text"
                           THEN ExecFrom(flows.dirs[k].template.text, 1)
                           ELSE <<>>]))

\* flattenTokens(tokens, prefix)
RECURSIVE flattenTokens(_, _)
flattenTokens(tokens, prefix) ==
    Concat([i \in 1..Len(entries(tokens)) |->
               LET fullKey == ChildPath(prefix, entries(tokens)[i][1])
                   value == entries(tokens)[i][2]
               IN IF value.t \in {"obj", "arr"}
                  THEN flattenTokens(value, fullKey)
                  ELSE <<fullKey>>])

\* validateTokensInEnvironment(envPath, usedTokens, envFile)
validateTokensInEnvironment(file, usedTokens, envFile) ==
    IF file.kind = "unparseable"
    THEN <<Finding("Failed to validate tokens", envFile, <<>>)>>
    ELSE LET definedTokens == flattenTokens(file.config.tokens, <<>>)
         IN Concat([i \in 1..Len(usedTokens) |->
                       IF \A j \in 1..Len(definedTokens) : definedTokens[j] # usedTokens[i]
                       THEN <<Finding("Token used in templates but not defined",
                                      envFile, usedTokens[i])>>
                       ELSE <<>>])

\* validateTokenCompleteness(flowsDir, envDir) for an existing flows directory
validateTokenCompleteness(flows, env) ==
    Concat([i \in 1..Len(envFiles) |->
               IF env[i].kind # "missing"
               THEN validateTokensInEnvironment(env[i], collectUsedTokens(flows), envFiles[i])
               ELSE <<>>])

\* Mutant: warnings block as well.
isValid_noWarnings(validator) ==
    Len(validator.errors) = 0 /\ Len(validator.warnings) = 0

\* return this.errors.length === 0
isValid(validator) == Len(validator.errors) = 0

(***************************************************************************)
(* FlowValidator: the files of a run                                       *)
(***************************************************************************)
MaxFlows == 2

InstanceA == <<"1", "2", "3", "4", "5", "6", "7", "8", "-", "1", "2",
               "3", "4", "-", "1", "2", "3", "4", "-", "1", "2", "3", "4",
               "-", "1", "2", "3", "4", "5", "6", "7", "8", "9", "0", "1", "2">>

InstanceB == <<"1", "1", "1", "1", "1", "1", "1", "1", "-", "1", "1",
               "1", "1", "-", "1", "1", "1", "1", "-", "1", "1", "1", "1",
               "-", "1", "1", "1", "1", "1", "1", "1", "1", "1", "1", "1", "1">>

ConnectPrefix == <<"a", "r", "n", ":", "a", "w", "s", ":", "c", "o",
                   "n", "n", "e", "c", "t", ":", "u", "s", "-", "e", "a",
                   "s", "t", "-", "1", ":">> \o Account

\* the ARN of a resource of a Connect instance
ResourceArn(instance, kind, id) ==
    ConnectPrefix \o <<":", "i", "n", "s", "t", "a", "n", "c", "e", "/">> \o instance \o <<"/">> \o kind \o <<"/">> \o id

\* an ARN that holds the instance id after '/instance/'
SlashArn(instance, kind, id) ==
    ConnectPrefix \o <<":", "a", "l", "i", "a", "s", "/", "i", "n",
                       "s", "t", "a", "n", "c", "e", "/">> \o instance \o <<"/">> \o kind \o <<"/">> \o id

AuthAlias(region) ==
    <<"a", "r", "n", ":", "a", "w", "s", ":", "l", "a", "m", "b", "d",
      "a", ":">> \o region \o <<":">> \o Account \o <<":", "f",
                                                             "u", "n", "c",
                                                             "t", "i", "o",
                                                             "n", ":", "a",
                                                             "u", "t", "h",
                                                             ":", "L", "I",
                                                             "V", "E">>

Config(instanceId, lambdaRegion, queues, prompts) ==
    [connect |-> [instance_id |-> instanceId,
                  instance_arn |-> ConnectPrefix \o <<":", "i", "n",
                                                      "s", "t", "a", "n",
                                                      "c", "e", "/">> \o instanceId,
                  region |-> <<"u", "s", "-", "e", "a", "s", "t", "-",
                               "1">>],
     tokens |-> JObj(<<<<<<"L", "a", "m", "b", "d", "a">>, JObj(<<<<<<"A", "u", "t", "h",
                                                "A", "l", "i", "a", "s">>, JStr(AuthAlias(lambdaRegion))>>>>)>>,
                       <<<<"Q", "u", "e", "u", "e">>, JObj(queues)>>,
                       <<<<"P", "r", "o", "m", "p", "t">>, JObj(prompts)>>>>)]

Sales(instance) == <<<<"S", "a", "l", "e", "s">>, JStr(ResourceArn(instance, <<"q", "u",
                                                             "e", "u", "e">>, <<"s",
                                                                        "a",
                                                                        "l",
                                                                        "e",
                                                                        "s">>))>>

NewQueue(instance) == <<<<"N", "e", "w", "Q", "u", "e", "u", "e">>, JStr(ResourceArn(instance, <<"q",
                                                                   "u", "e",
                                                                   "u", "e">>, <<"n",
                                                                              "e",
                                                                              "w">>))>>

Welcome(arn) == <<<<"W", "e", "l", "c", "o", "m", "e">>, JStr(arn)>>

\* complete and consistent
EnvGood == Config(InstanceA, <<"u", "s", "-", "e", "a", "s", "t", "-",
                               "1">>, <<Sales(InstanceA), NewQueue(InstanceA)>>, <<>>)

\* consistent, without Queue.NewQueue
EnvNoNewQueue == Config(InstanceA, <<"u", "s", "-", "e", "a", "s", "t",
                                     "-", "1">>, <<Sales(InstanceA)>>, <<>>)

\* one queue of another instance
EnvOtherInstance ==
    Config(InstanceA, <<"u", "s", "-", "e", "a", "s", "t", "-", "1">>, <<Sales(InstanceB), NewQueue(InstanceA)>>, <<>>)

\* prompts whose ARN holds '/instance/<id>': one of another instance, one of
\* the configured instance
EnvSlashOther ==
    Config(InstanceA, <<"u", "s", "-", "e", "a", "s", "t", "-", "1">>, <<Sales(InstanceA)>>,
           <<Welcome(SlashArn(InstanceB, <<"p", "r", "o", "m", "p", "t">>, <<"w">>))>>)

EnvSlashSame ==
    Config(InstanceA, <<"u", "s", "-", "e", "a", "s", "t", "-", "1">>, <<Sales(InstanceA)>>,
           <<Welcome(SlashArn(InstanceA, <<"p", "r", "o", "m", "p", "t">>, <<"w">>))>>)

\* a Lambda alias of another region
EnvOtherRegion == Config(InstanceA, <<"e", "u", "-", "w", "e", "s",
                                      "t", "-", "1">>, <<Sales(InstanceA), NewQueue(InstanceA)>>, <<>>)

\* instance_id is not a UUID
EnvBadSchema == Config(<<"a", "b", "c">>, <<"u", "s", "-", "e", "a", "s", "t",
                                  "-", "1">>, <<Sales(<<"a", "b", "c">>)>>, <<>>)

EnvFileContents ==
    { NoFile, BadYaml, YamlFile(EnvGood), YamlFile(EnvNoNewQueue),
      YamlFile(EnvOtherInstance), YamlFile(EnvSlashOther), YamlFile(EnvSlashSame),
      YamlFile(EnvOtherRegion), YamlFile(EnvBadSchema) }

Entry(k, v) == <<k, JStr(v)>>

\* the template of the test 'should detect token usage in templates'
TemplateUsage ==
    TemplateFile(stringify(JObj(<<Entry(<<"l", "a", "m", "b", "d", "a">>, TokenText(<<"L",
                                                                "a", "m",
                                                                "b", "d",
                                                                "a", ".",
                                                                "A", "u",
                                                                "t", "h",
                                                                "A", "l",
                                                                "i", "a", "s">>)),
                                  Entry(<<"q", "u", "e", "u", "e">>, TokenText(<<"Q",
                                                               "u", "e", "u",
                                                               "e", ".", "S",
                                                               "a", "l", "e",
                                                               "s">>)),
                                  Entry(<<"i", "n", "v", "a", "l", "i",
                                          "d", "T", "o", "k", "e", "n">>, TokenText(<<"I",
                                                                      "n",
                                                                      "v",
                                                                      "a",
                                                                      "l",
                                                                      "i",
                                                                      "d",
                                                                      "F",
                                                                      "o",
                                                                      "r",
                                                                      "m",
                                                                      "a", "t">>))>>)),
                 TRUE)

\* a complete flow that references Queue.NewQueue
TemplateNewQueue ==
    TemplateFile(stringify(JObj(<<Entry(<<"s", "t", "a", "r", "t">>, <<"S", "t", "a",
                                                     "r", "t", "F", "l", "o",
                                                     "w", "E", "x", "e", "c",
                                                     "u", "t", "i", "o", "n">>),
                                  Entry(<<"q", "u", "e", "u", "e">>, TokenText(<<"Q",
                                                               "u", "e", "u",
                                                               "e", ".", "N",
                                                               "e", "w", "Q",
                                                               "u", "e", "u",
                                                               "e">>)),
                                  Entry(<<"n", "o", "t", "e">>, [i \in 1..100 |-> "x"]),
                                  Entry(<<"e", "n", "d">>, <<"D", "i", "s", "c",
                                                   "o", "n", "n", "e", "c",
                                                   "t", "P", "a", "r", "t",
                                                   "i", "c", "i", "p", "a",
                                                   "n", "t">>)>>)),
                 TRUE)

\* a flow without tokens that ends at once
TemplatePlain ==
    TemplateFile(stringify(JObj(<<Entry(<<"e", "n", "d">>, <<"D", "i", "s", "c",
                                                   "o", "n", "n", "e", "c",
                                                   "t", "P", "a", "r", "t",
                                                   "i", "c", "i", "p", "a",
                                                   "n", "t">>)>>)), TRUE)

\* a token outside a string: not JSON until rendered
TemplateRaw == TemplateFile(<<"{", "\"", "q", "u", "e", "u", "e", "\"",
                              ":", " ">> \o TokenText(<<"Q", "u",
                                                          "e", "u", "e", ".",
                                                          "S", "a", "l", "e",
                                                          "s">>) \o <<"}">>, FALSE)

\* not JSON, no token
TemplateBroken == TemplateFile(<<"{", "o", "o", "p", "s">>, FALSE)

Templates ==
    {NoTemplate, TemplateUsage, TemplateNewQueue, TemplatePlain, TemplateRaw, TemplateBroken}

FlowName(k) == <<"f", "l", "o", "w">> \o NumberText(k)

NoFlowsDir == [exists |-> FALSE, dirs |-> <<>>]

FlowsDir(ts) ==
    [exists |-> TRUE,
     dirs |-> [k \in 1..Len(ts) |-> [name |-> FlowName(k), template |-> ts[k]]]]

(***************************************************************************)
(* FlowValidator: state machine of the validate command                    *)
(***************************************************************************)
\* new FlowValidator() in main, over the files of the two directories
InitValidator ==
    /\ \E d \in EnvFileContents :
           \/ fsEnv = <<d, YamlFile(EnvGood), YamlFile(EnvGood)>>
           \/ fsEnv = <<d, YamlFile(EnvNoNewQueue), YamlFile(EnvGood)>>
           \/ fsEnv = <<d, YamlFile(EnvGood), NoFile>>
    /\ \/ fsFlows = NoFlowsDir
       \/ \E n \in 0..MaxFlows : \E ts \in [1..n -> Templates] : fsFlows = FlowsDir(ts)
    /\ errors = <<>>
    /\ warnings = <<>>
    /\ vPc = "validateEnvironmentConfigs"
    /\ vaOut = NoCall
    /\ exitCode = -1
    /\ nRuns = 1
    /\ RenderIdle /\ NormIdle /\ CheckIdle /\ HandlerIdle /\ CliIdle /\ ExporterIdle

\* await this.validateEnvironmentConfigs(envDir)
ValidateEnvironmentConfigs ==
    /\ vPc = "validateEnvironmentConfigs"
    /\ errors' = errors \o validateEnvironmentConfigs(fsEnv).errors
    /\ warnings' = warnings \o validateEnvironmentConfigs(fsEnv).warnings
    /\ vPc' = "validateFlowTemplates"
    /\ UNCHANGED <<nRuns, fsEnv, fsFlows, vaOut, exitCode>>
    /\ UNCHANGED <<renderVars, normVars, checkVars, handlerVars, cliVars, exporterVars>>

\* await this.validateFlowTemplates(flowsDir)
ValidateFlowTemplates ==
    /\ vPc = "validateFlowTemplates"
    /\ errors' = errors \o validateFlowTemplates(fsFlows).errors
    /\ warnings' = warnings \o validateFlowTemplates(fsFlows).warnings
    /\ vPc' = "validateTokenCompleteness"
    /\ UNCHANGED <<nRuns, fsEnv, fsFlows, vaOut, exitCode>>
    /\ UNCHANGED <<renderVars, normVars, checkVars, handlerVars, cliVars, exporterVars>>

\* await this.validateTokenCompleteness(flowsDir, envDir): fs.readdir of
\* collectUsedTokens rejects when the flows directory does not exist, and
\* validateAll rejects with it
ValidateTokenCompleteness ==
    /\ vPc = "validateTokenCompleteness"
    /\ IF fsFlows.exists
       THEN /\ errors' = errors \o validateTokenCompleteness(fsFlows, fsEnv)
            /\ vPc' = "reportResults"
            /\ vaOut' = vaOut
       ELSE /\ errors' = errors
            /\ vPc' = "main"
            /\ vaOut' = [kind |-> "throw", value |-> FALSE]
    /\ UNCHANGED <<nRuns, fsEnv, fsFlows, warnings, exitCode>>
    /\ UNCHANGED <<renderVars, normVars, checkVars, handlerVars, cliVars, exporterVars>>

\* this.reportResults(); return this.errors.length === 0
ReportResults ==
    /\ vPc = "reportResults"
    /\ vaOut' = [kind |-> "return",
                 value |-> isValid([errors |-> errors, warnings |-> warnings])]
    /\ vPc' = "main"
    /\ UNCHANGED <<nRuns, fsEnv, fsFlows, errors, warnings, exitCode>>
    /\ UNCHANGED <<renderVars, normVars, checkVars, handlerVars, cliVars, exporterVars>>

\* main after validateAll settles: process.exit(1) when it returned false or
\* rejected, otherwise the process ends with code 0
MainExit ==
    /\ vPc = "main"
    /\ exitCode' = IF vaOut.kind = "throw" \/ ~vaOut.value THEN 1 ELSE 0
    /\ vPc' = "exited"
    /\ UNCHANGED <<nRuns, fsEnv, fsFlows, errors, warnings, vaOut>>
    /\ UNCHANGED <<renderVars, normVars, checkVars, handlerVars, cliVars, exporterVars>>

NextValidator ==
    \/ ValidateEnvironmentConfigs
    \/ ValidateFlowTemplates
    \/ ValidateTokenCompleteness
    \/ ReportResults
    \/ MainExit

SpecValidator == InitValidator /\ [][NextValidator]_vars

(***************************************************************************)
(* FlowValidator: properties                                               *)
(***************************************************************************)
\* C14: validateAll returns true iff the error list is empty, whatever the
\* warnings, and the command exits non-zero exactly when validateAll returned
\* false or threw.
C14_PassIffNoErrors ==
    /\ vaOut.kind = "return" => (vaOut.value <=> errors = <<>>)
    /\ vPc = "exited" =>
           (exitCode # 0 <=> (vaOut.kind = "throw"
                              \/ (vaOut.kind = "return" /\ ~vaOut.value)))

\* a run with warnings and no error passes and exits with 0
C14_Witness ==
    /\ vPc = "exited"
    /\ Len(warnings) >= 2
    /\ vaOut.kind = "return" /\ vaOut.value
    /\ exitCode = 0

\* the number of entries of list with the given message, file and context
Count(list, msg, file, context) ==
    Cardinality({i \in 1..Len(list) : list[i] = Finding(msg, file, context)})

\* the instance id an ARN embeds: the path segment that follows the segment
\* 'instance' of its resource part (empty when there is none)
EmbeddedInstance(arn) ==
    LET colon == SplitOn(arn, ":")
        seg == IF Len(colon) >= 6 THEN SplitOn(colon[6], "/") ELSE <<>>
        at == {k \in 1..(Len(seg) - 1) : seg[k] = <<"i", "n", "s", "t",
                                                    "a", "n", "c", "e">>}
    IN IF at = {} THEN <<>> ELSE seg[Min(at) + 1]

\* C15: once the environment files are validated, every Queue, Prompt or Lex
\* token of a schema-valid file has exactly one 'Instance ID mismatch' error
\* naming Category.Name when its ARN embeds another instance id than
\* connect.instance_id, and none when it embeds the configured id.
C15_InstanceMismatchReported ==
    vPc # "validateEnvironmentConfigs" =>
        \A i \in 1..Len(envFiles) :
            (fsEnv[i].kind = "yaml" /\ envSchema(fsEnv[i].config)) =>
                LET config == fsEnv[i].config
                    all == TokenTriples(config, {<<"Q", "u", "e", "u",
                                                   "e">>, <<"P", "r",
                                                              "o", "m", "p",
                                                              "t">>, <<"L",
                                                                          "e",
                                                                          "x">>})
                IN \A k \in 1..Len(all) :
                       EmbeddedInstance(all[k][3].s) # <<>> =>
                           Count(errors, "Instance ID mismatch", envFiles[i],
                                 all[k][1] \o <<".">> \o all[k][2])
                           = IF EmbeddedInstance(all[k][3].s) # config.connect.instance_id
                             THEN 1 ELSE 0

\* the distinct token paths referenced by the templates of the flows directory
ReferencedPaths ==
    UNION {{tokenPattern(fsFlows.dirs[k].template.text)[m].path :
              m \in 1..Len(tokenPattern(fsFlows.dirs[k].template.text))} :
             k \in {j \in 1..Len(fsFlows.dirs) : fsFlows.dirs[j].template.kind = "text"}}

\* the token paths an environment file defines
DefinedPaths(file) ==
    {flattenTokens(file.config.tokens, <<>>)[j] :
        j \in 1..Len(flattenTokens(file.config.tokens, <<>>))}

\* C16: once validateTokenCompleteness has run, every environment file that
\* exists has exactly one error naming the path and the file for each distinct
\* referenced token path it does not define, and none for a path it defines.
C16_MissingTokensReported ==
    (vPc \in {"reportResults", "main", "exited"} /\ fsFlows.exists) =>
        \A i \in 1..Len(envFiles) :
            fsEnv[i].kind = "yaml" =>
                \A p \in ReferencedPaths :
                    Count(errors, "Token used in templates but not defined", envFiles[i], p)
                    = IF p \in DefinedPaths(fsEnv[i]) THEN 0 ELSE 1

\* the references of a template text, as the renderer finds them
References(text) == [m \in 1..Len(tokenPattern(text)) |-> tokenPattern(text)[m].path]

\* C17: once the templates are validated, each template handed to
\* validateTokenUsage has one 'Invalid token format' error per reference with
\* fewer than two segments and one 'Unknown service' warning per reference
\* whose leading segment is not a known service; a template containing
\* '${InvalidFormat}' has at least one of them.
C17_TokenUsageReported ==
    (vPc # "validateEnvironmentConfigs" /\ vPc # "validateFlowTemplates") =>
        \A k \in 1..Len(fsFlows.dirs) :
            LET tmpl == fsFlows.dirs[k].template
                name == fsFlows.dirs[k].name
                refs == References(tmpl.text)
            IN (tmpl.kind = "text" /\ (tmpl.parses \/ includes(tmpl.text, <<"$", "{">>))) =>
                   /\ Cardinality({i \in 1..Len(errors) :
                                     /\ errors[i].msg = "Invalid token format"
                                     /\ errors[i].file = name})
                      = Cardinality({m \in 1..Len(refs) : Len(SplitDot(refs[m])) < 2})
                   /\ Cardinality({i \in 1..Len(warnings) :
                                     /\ warnings[i].msg = "Unknown service in token"
                                     /\ warnings[i].file = name})
                      = Cardinality({m \in 1..Len(refs) :
                                       SplitDot(refs[m])[1] \notin validServices})

(***************************************************************************)
(* ConnectFlowStack (cdk/lib/connect-flow-stack.js): the custom resource   *)
(* properties built at synthesis                                           *)
(***************************************************************************)
\* const lambdaArnPattern = /arn:aws:lambda:[^"\\s]+/g and flowStr.match: the
\* matches from position i on.  The class [^"\\s] excludes the quote, the
\* backslash and the letter s.
RECURSIVE lambdaArnPattern(_, _)
lambdaArnPattern(s, i) ==
    LET prefix == <<"a", "r", "n", ":", "a", "w", "s", ":", "l", "a",
                    "m", "b", "d", "a", ":">>
        starts == {p \in i..Len(s) :
                     /\ OccursAt(s, prefix, p)
                     /\ p + Len(prefix) <= Len(s)
                     /\ s[p + Len(prefix)] \notin {"\"", "\\", "s"}}
    IN IF starts = {} THEN <<>>
       ELSE LET p == Min(starts)
                stop == {j \in (p + Len(prefix))..Len(s) : s[j] \in {"\"", "\\", "s"}}
                e == IF stop = {} THEN Len(s) ELSE Min(stop) - 1
            IN <<SubSeq(s, p, e)>> \o lambdaArnPattern(s, e + 1)

\* extractLambdaArns(flowContent)
extractLambdaArns(flowContent) == AddAll(<<>>, lambdaArnPattern(stringify(flowContent), 1))

\* deploymentMetadata for a stack without gitSha; deployedAt is the time of
\* the synthesis
deploymentMetadata(environment, releaseTag) ==
    JObj(<<<<<<"d", "e", "p", "l", "o", "y", "e", "d", "A", "t">>, JStr(<<"2", "0", "2", "4", "-", "0", "1",
                                    "-", "0", "1", "T", "0", "0", ":", "0",
                                    "0", ":", "0", "0", ".", "0", "0", "0",
                                    "Z">>)>>,
           <<<<"e", "n", "v", "i", "r", "o", "n", "m", "e", "n", "t">>, JStr(environment)>>>>
         \o (IF releaseTag # <<>> THEN <<<<<<"r", "e", "l", "e", "a",
                                             "s", "e", "T", "a", "g">>, JStr(releaseTag)>>>> ELSE <<>>))

\* flowContent.metadata = ... for a flow file without a metadata key
WithMetadata(flowContent, metadata) ==
    JObj(flowContent.o \o <<<<<<"m", "e", "t", "a", "d", "a", "t", "a">>, metadata>>>>)

\* deployContactFlow(flowFile): the properties of the custom resource, for
\* the flow file content, this.releaseTag and this.blueGreenDeployment
deployContactFlow(flowName, flowContent, envConnect, releaseTag, blueGreenDeployment) ==
    LET content == WithMetadata(flowContent, deploymentMetadata(<<"d",
                                                                  "e", "v">>, releaseTag))
    IN [FlowName |-> flowName,
        FlowContent |-> stringify(content),
        InstanceId |-> envConnect.instance_id,
        InstanceArn |-> envConnect.instance_arn,
        BlueGreenDeployment |-> blueGreenDeployment,
        LambdaArns |-> extractLambdaArns(content),
        ReleaseTag |-> IF releaseTag # <<>> THEN releaseTag ELSE <<"u",
                                                                   "n", "k",
                                                                   "n", "o",
                                                                   "w", "n">>]

(***************************************************************************)
(* The handler of the custom resource (getConnectFlowHandlerCode)          *)
(***************************************************************************)
\* one lambda.addPermission call and whether it succeeded
Grant(lambdaArn, instanceArn, bad) ==
    LET seg == SplitOn(lambdaArn, ":")
        functionName == IF Len(seg) >= 7 THEN JStr(seg[7]) ELSE Undefined
    IN [lambdaArn |-> lambdaArn,
        FunctionName |-> functionName,
        Action |-> "lambda:InvokeFunction",
        Principal |-> "connect.amazonaws.com",
        SourceArn |-> instanceArn,
        ok |-> functionName # Undefined /\ lambdaArn \notin bad]

\* Mutant: the first failed grant ends the loop.
setupLambdaPermissions_abort(lambdaArns, instanceArn, bad) ==
    LET all == [i \in 1..Len(lambdaArns) |-> Grant(lambdaArns[i], instanceArn, bad)]
        failed == {i \in 1..Len(all) : ~all[i].ok}
    IN IF failed = {} THEN all ELSE SubSeq(all, 1, Min(failed))

\* setupLambdaPermissions(lambdaArns, instanceArn): the addPermission calls it
\* makes; bad holds the ARNs for which the Lambda service rejects the call
setupLambdaPermissions(lambdaArns, instanceArn, bad) ==
    [i \in 1..Len(lambdaArns) |-> Grant(lambdaArns[i], instanceArn, bad)]

\* one call to the Connect service
ConnectCall(api, id, name, content, ok) ==
    [api |-> api, id |-> id, name |-> name, content |-> content, ok |-> ok]

\* `${flowName}-${releaseTag || new Date().getTime()}`
versionedName(flowName, releaseTag, now) ==
    flowName \o <<"-">> \o (IF releaseTag # <<>> THEN releaseTag ELSE NumberText(now))

\* handleCreate: aws holds what the services answer during the request
handleCreate(flowName, flowContent, instanceId, instanceArn, lambdaArns, releaseTag, aws) ==
    [grants |-> setupLambdaPermissions(lambdaArns, instanceArn, aws.bad),
     calls |-> <<ConnectCall("createContactFlow", aws.newArn,
                             versionedName(flowName, releaseTag, aws.now),
                             flowContent, aws.flowOk)>>,
     out |-> IF aws.flowOk
             THEN [kind |-> "return", value |-> JStr(aws.newArn)]
             ELSE [kind |-> "throw", value |-> Undefined]]

\* the text a template literal holds for a value
Interpolated(v) == IF v = Undefined THEN <<"u", "n", "d", "e", "f",
                                           "i", "n", "e", "d">> ELSE v.s

Last(seq) == seq[Len(seq)]

\* Mutant: the existing flow is rewritten in place in every mode.
handleUpdate_inPlace(contactFlowArn, flowName, flowContent, instanceId, lambdaArns, blueGreenDeployment, releaseTag, aws) ==
    [grants |-> setupLambdaPermissions(lambdaArns, contactFlowArn, aws.bad),
     calls |-> <<ConnectCall("updateContactFlowContent",
                             Last(SplitOn(contactFlowArn, "/")), <<>>,
                             flowContent, aws.flowOk)>>,
     out |-> IF aws.flowOk
             THEN [kind |-> "return", value |-> Undefined]
             ELSE [kind |-> "throw", value |-> Undefined]]

\* handleUpdate
handleUpdate(contactFlowArn, flowName, flowContent, instanceId, lambdaArns, blueGreenDeployment, releaseTag, aws) ==
    LET sourceArn == <<"a", "r", "n", ":", "a", "w", "s", ":", "c",
                       "o", "n", "n", "e", "c", "t", ":">> \o Interpolated(aws.AWS_REGION) \o <<":">>
                     \o Interpolated(aws.AWS_ACCOUNT_ID) \o <<":", "i",
                                                              "n", "s", "t",
                                                              "a", "n", "c",
                                                              "e", "/">> \o instanceId
        first == setupLambdaPermissions(lambdaArns, sourceArn, aws.bad)
        created == handleCreate(flowName, flowContent, instanceId,
                                SplitOn(contactFlowArn, "/")[1], lambdaArns,
                                releaseTag, aws)
    IN IF blueGreenDeployment
       THEN [grants |-> first \o created.grants, calls |-> created.calls,
             out |-> created.out]
       ELSE [grants |-> first,
             calls |-> <<ConnectCall("updateContactFlowContent",
                                     Last(SplitOn(contactFlowArn, "/")), <<>>,
                                     flowContent, aws.flowOk)>>,
             out |-> IF aws.flowOk
                     THEN [kind |-> "return", value |-> Undefined]
                     ELSE [kind |-> "throw", value |-> Undefined]]

\* Mutant: the flow is deleted without looking at its state.
handleDelete_unchecked(contactFlowArn, instanceId, aws) ==
    IF contactFlowArn = Undefined \/ contactFlowArn = JStr(<<"f", "a",
                                                             "i", "l", "e",
                                                             "d">>)
    THEN <<>>
    ELSE <<ConnectCall("deleteContactFlow", Last(SplitOn(contactFlowArn.s, "/")),
                       <<>>, <<>>, TRUE)>>

\* handleDelete: describeContactFlow, whose answer is the live state or an
\* error; the deleteContactFlow call is commented out in the source
handleDelete(contactFlowArn, instanceId, aws) ==
    IF contactFlowArn = Undefined \/ contactFlowArn = JStr(<<"f", "a",
                                                             "i", "l", "e",
                                                             "d">>)
    THEN <<>>
    ELSE <<ConnectCall("describeContactFlow", Last(SplitOn(contactFlowArn.s, "/")),
                       <<>>, aws.described, aws.described # <<"e", "r",
                                                              "r", "o", "r">>)>>

Response(status, physicalResourceId, data) ==
    [Status |-> status, PhysicalResourceId |-> physicalResourceId, Data |-> data]

FlowData(arn, flowName) ==
    JObj(<<<<<<"C", "o", "n", "t", "a", "c", "t", "F", "l", "o", "w",
               "A", "r", "n">>, arn>>, <<<<"F", "l", "o", "w", "N",
                                            "a", "m", "e">>, JStr(flowName)>>>>)

\* Mutant: a failure without a prior id reports an empty id.
Failed_noFallback(ev) ==
    Response("FAILED",
             IF ev.PhysicalResourceId = Undefined
             THEN JStr(<<>>) ELSE ev.PhysicalResourceId,
             JObj(<<>>))

\* event.PhysicalResourceId || 'failed'
Failed(ev) ==
    Response("FAILED",
             IF ev.PhysicalResourceId \in {Undefined, JStr(<<>>)}
             THEN JStr(<<"f", "a", "i", "l", "e", "d">>) ELSE ev.PhysicalResourceId,
             JObj(<<>>))

\* exports.handler(event): the calls made and the response returned
handler(ev, aws) ==
    LET p == ev.ResourceProperties
    IN CASE ev.RequestType = "Create" ->
              LET c == handleCreate(p.FlowName, p.FlowContent, p.InstanceId,
                                    p.InstanceArn, p.LambdaArns, p.ReleaseTag, aws)
              IN [grants |-> c.grants, calls |-> c.calls,
                  response |-> IF c.out.kind = "return"
                               THEN Response("SUCCESS", c.out.value,
                                             FlowData(c.out.value, p.FlowName))
                               ELSE Failed(ev)]
         [] ev.RequestType = "Update" ->
              LET u == handleUpdate(ev.PhysicalResourceId.s, p.FlowName, p.FlowContent,
                                    p.InstanceId, p.LambdaArns, p.BlueGreenDeployment,
                                    p.ReleaseTag, aws)
              IN [grants |-> u.grants, calls |-> u.calls,
                  response |-> IF u.out.kind = "return"
                               THEN Response("SUCCESS", ev.PhysicalResourceId,
                                             FlowData(ev.PhysicalResourceId, p.FlowName))
                               ELSE Failed(ev)]
         [] ev.RequestType = "Delete" ->
              [grants |-> <<>>,
               calls |-> IF ~p.BlueGreenDeployment
                         THEN handleDelete(ev.PhysicalResourceId, p.InstanceId, aws)
                         ELSE <<>>,
               response |-> Response("SUCCESS", ev.PhysicalResourceId, JObj(<<>>))]

(***************************************************************************)
(* Deployment: the Connect instance, CloudFormation and the requests       *)
(***************************************************************************)
MaxRequests == 3

EnvConnect ==
    [instance_id |-> InstanceA,
     instance_arn |-> ConnectPrefix \o <<":", "i", "n", "s", "t", "a",
                                         "n", "c", "e", "/">> \o InstanceA,
     region |-> <<"u", "s", "-", "e", "a", "s", "t", "-", "1">>]

LambdaIn(region, function) ==
    <<"a", "r", "n", ":", "a", "w", "s", ":", "l", "a", "m", "b", "d",
      "a", ":">> \o region \o <<":">> \o Account \o <<":", "f",
                                                             "u", "n", "c",
                                                             "t", "i", "o",
                                                             "n", ":">> \o function

AuthCa == LambdaIn(<<"c", "a", "-", "c", "e", "n", "t", "r", "a", "l",
                     "-", "1">>, <<"a", "u", "t", "h">>)

RouteCa == LambdaIn(<<"c", "a", "-", "c", "e", "n", "t", "r", "a", "l",
                      "-", "1">>, <<"r", "o", "u", "t", "e">>)

AuthEast == LambdaIn(<<"u", "s", "-", "e", "a", "s", "t", "-", "1">>, <<"a", "u", "t", "h">>)

\* rendered artifacts: one Lambda, two Lambdas of which one is used twice,
\* one Lambda of a region whose name holds the letter s
FlowWith(arns) ==
    Artifact(<<<<<<"n", "a", "m", "e">>, JStr(<<"F">>)>>, <<<<"t", "y", "p", "e">>, JStr(<<"C", "O",
                                                             "N", "T", "A",
                                                             "C", "T", "_",
                                                             "F", "L", "O",
                                                             "W">>)>>>>,
             FlatContent(arns))

FlowFiles == {FlowWith(<<AuthCa>>), FlowWith(<<AuthCa, RouteCa, AuthCa>>), FlowWith(<<AuthEast>>)}

ReleaseTags == {<<"v", "1">>, <<>>}

\* the properties a synthesis can produce for the flow F
StackProperties ==
    {deployContactFlow(<<"F">>, f, EnvConnect, tag, bg) :
        f \in FlowFiles, tag \in ReleaseTags, bg \in BOOLEAN}

\* the ARN the Connect service gives to the k-th flow created
FlowArn(k) == EnvConnect.instance_arn \o <<"/", "c", "o", "n", "t",
                                           "a", "c", "t", "-", "f", "l", "o",
                                           "w", "/", "f">> \o NumberText(k)

\* the contact flows after the calls of a request, in order
RECURSIVE Applied(_, _)
Applied(flows, calls) ==
    IF calls = <<>> THEN flows
    ELSE LET c == Head(calls)
             at == {i \in 1..Len(flows) : Last(SplitOn(flows[i].arn, "/")) = c.id}
             next ==
                 CASE c.api = "createContactFlow" /\ c.ok ->
                        Append(flows, [arn |-> c.id, name |-> c.name,
                                       content |-> c.content, state |-> <<"A",
                                                                          "C",
                                                                          "T",
                                                                          "I",
                                                                          "V",
                                                                          "E">>])
                   [] c.api = "updateContactFlowContent" /\ c.ok ->
                        [i \in 1..Len(flows) |->
                            IF i \in at THEN [flows[i] EXCEPT !.content = c.content]
                            ELSE flows[i]]
                   [] c.api = "describeContactFlow" /\ c.ok ->
                        [i \in 1..Len(flows) |->
                            IF i \in at THEN [flows[i] EXCEPT !.state = c.content]
                            ELSE flows[i]]
                   [] c.api = "deleteContactFlow" /\ c.ok ->
                        SelectSeq(flows, LAMBDA f : Last(SplitOn(f.arn, "/")) # c.id)
                   [] OTHER -> flows
         IN Applied(next, Tail(calls))

\* what the services answer during one request
Answers(lambdaArns, flowOk, described) ==
    {[bad |-> bad, flowOk |-> flowOk, described |-> described,
      newArn |-> FlowArn(nextFlowId), now |-> nReq,
      AWS_REGION |-> JStr(<<"u", "s", "-", "e", "a", "s", "t", "-", "1">>), AWS_ACCOUNT_ID |-> processEnv] :
        bad \in SUBSET {lambdaArns[i] : i \in 1..Len(lambdaArns)}}

\* the handler runs for the event; CloudFormation keeps the physical id of
\* a Create's response, keeps its own on Update and drops it on Delete
Handle(ev, aws) ==
    \E h \in {handler(ev, aws)} :
        /\ event' = ev
        /\ grants' = h.grants
        /\ connectCalls' = h.calls
        /\ response' = h.response
        /\ connectFlows' = Applied(connectFlows, h.calls)
        /\ nextFlowId' = nextFlowId + Cardinality({i \in 1..Len(h.calls) :
                                                     /\ h.calls[i].api = "createContactFlow"
                                                     /\ h.calls[i].ok})
        /\ physicalId' = CASE ev.RequestType = "Create" -> h.response.PhysicalResourceId.s
                            [] ev.RequestType = "Update" -> physicalId
                            [] ev.RequestType = "Delete" -> <<>>
        /\ nReq' = nReq + 1
        /\ UNCHANGED <<processEnv, inFlight>>
        /\ UNCHANGED <<renderVars, normVars, checkVars, validatorVars, cliVars, exporterVars>>

\* the handler Lambda is created without environment variables: the runtime
\* sets AWS_REGION and no AWS_ACCOUNT_ID
InitHandler ==
    /\ connectFlows = <<>>
    /\ nextFlowId = 1
    /\ grants = <<>>
    /\ connectCalls = <<>>
    /\ processEnv = Undefined
    /\ physicalId = <<>>
    /\ event = NoCall
    /\ response = NoCall
    /\ nReq = 0
    /\ inFlight = <<>>
    /\ RenderIdle /\ NormIdle /\ CheckIdle /\ ValidatorIdle /\ CliIdle /\ ExporterIdle

\* CloudFormation creates the resource: a failed Create is followed by a
\* Delete carrying the id of the failure response
CreateRequest ==
    /\ nReq < MaxRequests
    /\ physicalId = <<>>
    /\ \E p \in StackProperties : \E flowOk \in BOOLEAN :
       \E aws \in Answers(p.LambdaArns, flowOk, <<"A", "C", "T", "I",
                                                  "V", "E">>) :
           Handle([RequestType |-> "Create", PhysicalResourceId |-> Undefined,
                   ResourceProperties |-> p], aws)

\* CloudFormation updates the resource it holds
UpdateRequest ==
    /\ nReq < MaxRequests
    /\ physicalId # <<>> /\ physicalId # <<"f", "a", "i", "l", "e", "d">>
    /\ \E p \in StackProperties : \E flowOk \in BOOLEAN :
       \E aws \in Answers(p.LambdaArns, flowOk, <<"A", "C", "T", "I",
                                                  "V", "E">>) :
           Handle([RequestType |-> "Update", PhysicalResourceId |-> JStr(physicalId),
                   ResourceProperties |-> p], aws)

\* CloudFormation deletes the resource it holds, with the properties of its
\* last request for it
DeleteRequest ==
    /\ nReq < MaxRequests
    /\ physicalId # <<>>
    /\ \E described \in {<<"A", "C", "T", "I", "V", "E">>, <<"A", "R", "C", "H", "I", "V", "E", "D">>, <<"e", "r", "r", "o", "r">>} :
       \E aws \in Answers(<<>>, TRUE, described) :
           Handle([RequestType |-> "Delete", PhysicalResourceId |-> JStr(physicalId),
                   ResourceProperties |-> event.ResourceProperties], aws)

NextHandler == CreateRequest \/ UpdateRequest \/ DeleteRequest

SpecHandler == InitHandler /\ [][NextHandler]_vars

(***************************************************************************)
(* Properties of the deployment handler                                    *)
(***************************************************************************)
\* the Lambda ARNs embedded in a rendered artifact's text: the string values
\* that start with arn:aws:lambda:, each up to its closing quote
EmbeddedLambdaArns(text) ==
    {SubSeq(text, p + 1, Min({j \in (p + 1)..Len(text) : text[j] = "\""}) - 1) :
        p \in {q \in 1..Len(text) : OccursAt(text, <<"\"">> \o <<"a",
                                                                 "r", "n",
                                                                 ":", "a",
                                                                 "w", "s",
                                                                 ":", "l",
                                                                 "a", "m",
                                                                 "b", "d",
                                                                 "a", ":">>, q)}}

Deploying == event # NoCall /\ event.RequestType \in {"Create", "Update"}

\* C18: on Create and on Update, every distinct Lambda ARN embedded in the
\* artifact gets a grant attempt for its function, with the principal
\* connect.amazonaws.com and with SourceArn = the instance ARN of the
\* environment.
C18_GrantsScopedToInstance ==
    Deploying =>
        \A a \in EmbeddedLambdaArns(event.ResourceProperties.FlowContent) :
            \E i \in 1..Len(grants) :
                /\ grants[i].lambdaArn = a
                /\ grants[i].FunctionName = JStr(SplitOn(a, ":")[7])
                /\ grants[i].Action = "lambda:InvokeFunction"
                /\ grants[i].Principal = "connect.amazonaws.com"
                /\ grants[i].SourceArn = event.ResourceProperties.InstanceArn

FlowOperations == {"createContactFlow", "updateContactFlowContent"}

\* C19: a failed grant does not end the request: every ARN of LambdaArns
\* has a grant attempt, the flow is created or updated, and the response is
\* SUCCESS when the flow operation succeeded.
C19_GrantFailureTolerated ==
    Deploying =>
        /\ \A k \in 1..Len(event.ResourceProperties.LambdaArns) :
              \E i \in 1..Len(grants) :
                  grants[i].lambdaArn = event.ResourceProperties.LambdaArns[k]
        /\ Len(connectCalls) = 1
        /\ connectCalls[1].api \in FlowOperations
        /\ connectCalls[1].ok => response.Status = "SUCCESS"

\* a request whose first grant failed, with a further ARN to grant, and whose
\* flow operation succeeded
C19_Witness ==
    /\ Deploying
    /\ Len(event.ResourceProperties.LambdaArns) >= 2
    /\ ~grants[1].ok
    /\ grants[1].FunctionName # Undefined
    /\ Len(connectCalls) = 1 /\ connectCalls[1].ok
    /\ response.Status = "SUCCESS"

\* C20: no request deletes a contact flow: the handler makes no
\* deleteContactFlow call, a Delete under blue/green makes no call to Connect
\* at all, and every version ever created is still there.
C20_NoDeleteOfActive ==
    /\ \A i \in 1..Len(connectCalls) : connectCalls[i].api # "deleteContactFlow"
    /\ (event # NoCall /\ event.RequestType = "Delete"
        /\ event.ResourceProperties.BlueGreenDeployment) => connectCalls = <<>>
    /\ \A k \in 1..(nextFlowId - 1) :
          \E i \in 1..Len(connectFlows) : connectFlows[i].arn = FlowArn(k)

\* a direct Delete of a deployed flow that the service reports as ACTIVE
C20_Witness ==
    /\ event # NoCall /\ event.RequestType = "Delete"
    /\ ~event.ResourceProperties.BlueGreenDeployment
    /\ Len(connectCalls) = 1
    /\ connectCalls[1].api = "describeContactFlow"
    /\ connectCalls[1].content = <<"A", "C", "T", "I", "V", "E">>
    /\ \E i \in 1..Len(connectFlows) : connectFlows[i].arn = event.PhysicalResourceId.s

\* the version names the handler may give to a flow of an untagged
\* deployment: the flow name and a timestamp
TimestampNames(flowName) == {versionedName(flowName, <<>>, n) : n \in 0..MaxRequests}

\* the version names of the tagged releases
ReleaseNames(flowName) == {versionedName(flowName, tag, 0) : tag \in ReleaseTags \ {<<>>}}

\* C21: a created version is named <FlowName>-<release tag>, or
\* <FlowName>-<timestamp> when the deployment has no release tag, and two
\* versions in the instance share a name only when they come from the same
\* tagged release.
C21_VersionIdentifiers ==
    /\ \A i \in 1..Len(connectFlows) :
          connectFlows[i].name \in ReleaseNames(<<"F">>) \cup TimestampNames(<<"F">>)
    /\ \A i, j \in 1..Len(connectFlows) :
          (i # j /\ connectFlows[i].name = connectFlows[j].name)
              => connectFlows[i].name \in ReleaseNames(<<"F">>)

\* C22: a blue/green Update makes no updateContactFlowContent call; it only
\* creates a flow, and every flow that existed before the request is
\* unchanged after it.
C22_BlueGreenUpdateKeepsPrior ==
    [][(/\ nReq' = nReq + 1
        /\ event'.RequestType = "Update"
        /\ event'.ResourceProperties.BlueGreenDeployment)
       => /\ \A i \in 1..Len(connectCalls') : connectCalls'[i].api = "createContactFlow"
          /\ Len(connectFlows') >= Len(connectFlows)
          /\ \A i \in 1..Len(connectFlows) : connectFlows'[i] = connectFlows[i]]_vars

\* a blue/green Update that created a further version of a deployed flow
C22_Witness ==
    /\ event # NoCall /\ event.RequestType = "Update"
    /\ event.ResourceProperties.BlueGreenDeployment
    /\ Len(connectCalls) = 1 /\ connectCalls[1].ok
    /\ Len(connectFlows) >= 2
    /\ connectFlows[Len(connectFlows)].content = event.ResourceProperties.FlowContent
    /\ connectFlows[1].content # event.ResourceProperties.FlowContent

\* C28: the PhysicalResourceId and Data.ContactFlowArn of a SUCCESS response
\* to a Create or Update name the flow that holds the submitted FlowContent.
C28_ResponseNamesDeployedFlow ==
    (Deploying /\ response.Status = "SUCCESS") =>
        /\ response.Data = FlowData(response.PhysicalResourceId, event.ResourceProperties.FlowName)
        /\ \E i \in 1..Len(connectFlows) :
              /\ connectFlows[i].arn = response.PhysicalResourceId.s
              /\ connectFlows[i].content = event.ResourceProperties.FlowContent

\* C29: every request ends with a SUCCESS or FAILED response; a failed Create
\* reports the id 'failed'; a Delete carrying 'failed' makes no call to
\* Connect and ends with SUCCESS.
C29_HandlerAlwaysResponds ==
    event # NoCall =>
        /\ response # NoCall
        /\ response.Status \in {"SUCCESS", "FAILED"}
        /\ (event.RequestType = "Create" /\ response.Status = "FAILED")
               => response.PhysicalResourceId = JStr(<<"f", "a", "i",
                                                       "l", "e", "d">>)
        /\ (event.RequestType = "Delete" /\ event.PhysicalResourceId = JStr(<<"f",
                                                                              "a",
                                                                              "i",
                                                                              "l",
                                                                              "e",
                                                                              "d">>))
               => connectCalls = <<>> /\ response.Status = "SUCCESS"

\* a direct-mode Delete that carries the id of a failed Create
C29_Witness ==
    /\ event # NoCall /\ event.RequestType = "Delete"
    /\ ~event.ResourceProperties.BlueGreenDeployment
    /\ event.PhysicalResourceId = JStr(<<"f", "a", "i", "l", "e", "d">>)
    /\ response.Status = "SUCCESS"

(***************************************************************************)
(* Concurrent invocations of the handler: the Lambda service runs every    *)
(* invocation it receives at once, and the handler awaits its service      *)
(* calls one after the other                                               *)
(***************************************************************************)
MaxInvocations == 2

InitConcurrent ==
    /\ HandlerIdle
    /\ RenderIdle /\ NormIdle /\ CheckIdle /\ ValidatorIdle /\ CliIdle /\ ExporterIdle

\* an invocation with a Create request starts while others may be running
Invoke ==
    /\ Len(inFlight) < MaxInvocations
    /\ \E p \in StackProperties :
           inFlight' = Append(inFlight,
                              [event |-> [RequestType |-> "Create",
                                          PhysicalResourceId |-> Undefined,
                                          ResourceProperties |-> p],
                               pc |-> "setupLambdaPermissions",
                               created |-> <<>>, out |-> NoCall])
    /\ UNCHANGED <<connectFlows, nextFlowId, grants, connectCalls, processEnv, physicalId, event, response, nReq>>
    /\ UNCHANGED <<renderVars, normVars, checkVars, validatorVars, cliVars, exporterVars>>

\* what handleCreate does for the invocation i when the services answer aws
CreateOf(i, aws) ==
    LET p == inFlight[i].event.ResourceProperties
    IN handleCreate(p.FlowName, p.FlowContent, p.InstanceId, p.InstanceArn,
                    p.LambdaArns, p.ReleaseTag, aws)

\* the answers to the invocation's calls
AnswersTo(i, flowOk) ==
    Answers(inFlight[i].event.ResourceProperties.LambdaArns, flowOk, <<"A",
                                                                       "C",
                                                                       "T",
                                                                       "I",
                                                                       "V",
                                                                       "E">>)

\* await setupLambdaPermissions(lambdaArns, instanceArn) of handleCreate
AwaitPermissions(i) ==
    /\ inFlight[i].pc = "setupLambdaPermissions"
    /\ \E aws \in AnswersTo(i, TRUE) :
           grants' = grants \o CreateOf(i, aws).grants
    /\ inFlight' = [inFlight EXCEPT ![i].pc = "createContactFlow"]
    /\ UNCHANGED <<connectFlows, nextFlowId, connectCalls, processEnv, physicalId, event, response, nReq>>
    /\ UNCHANGED <<renderVars, normVars, checkVars, validatorVars, cliVars, exporterVars>>

\* await connect.createContactFlow(params).promise() of handleCreate
AwaitCreateContactFlow(i) ==
    /\ inFlight[i].pc = "createContactFlow"
    /\ \E flowOk \in BOOLEAN : \E c \in {CreateOf(i, CHOOSE aws \in AnswersTo(i, flowOk) : aws.bad = {})} :
           /\ connectCalls' = connectCalls \o c.calls
           /\ connectFlows' = Applied(connectFlows, c.calls)
           /\ nextFlowId' = IF flowOk THEN nextFlowId + 1 ELSE nextFlowId
           /\ inFlight' = [inFlight EXCEPT ![i].pc = "return",
                                           ![i].created = c.calls[1].name,
                                           ![i].out = c.out]
    /\ UNCHANGED <<grants, processEnv, physicalId, event, response, nReq>>
    /\ UNCHANGED <<renderVars, normVars, checkVars, validatorVars, cliVars, exporterVars>>

\* the handler returns its response
Return(i) ==
    /\ inFlight[i].pc = "return"
    /\ event' = inFlight[i].event
    /\ response' = IF inFlight[i].out.kind = "return"
                   THEN Response("SUCCESS", inFlight[i].out.value,
                                 FlowData(inFlight[i].out.value,
                                          inFlight[i].event.ResourceProperties.FlowName))
                   ELSE Failed(inFlight[i].event)
    /\ inFlight' = [inFlight EXCEPT ![i].pc = "done"]
    /\ nReq' = nReq + 1
    /\ UNCHANGED <<connectFlows, nextFlowId, grants, connectCalls, processEnv, physicalId>>
    /\ UNCHANGED <<renderVars, normVars, checkVars, validatorVars, cliVars, exporterVars>>

NextConcurrent ==
    \/ Invoke
    \/ \E i \in 1..Len(inFlight) : AwaitPermissions(i)
    \/ \E i \in 1..Len(inFlight) : AwaitCreateContactFlow(i)
    \/ \E i \in 1..Len(inFlight) : Return(i)

SpecConcurrent == InitConcurrent /\ [][NextConcurrent]_vars

\* C23: two invocations for the same flow and environment that are in
\* flight together have never both called createContactFlow with the same
\* version name.
C23_SerializedPerPair ==
    \A i, j \in 1..Len(inFlight) :
        (/\ i # j
         /\ inFlight[i].pc = "return" /\ inFlight[j].pc = "return"
         /\ inFlight[i].event.ResourceProperties.FlowName
                = inFlight[j].event.ResourceProperties.FlowName)
            => inFlight[i].created # inFlight[j].created

(***************************************************************************)
(* A FlowValidator used for more than one validateAll call                 *)
(***************************************************************************)
MaxRuns == 2

\* the caller that got validateAll's result calls validateAll again on the
\* same validator, after the environment files were left alone or repaired;
\* neither the constructor nor validateAll empties this.errors and
\* this.warnings
ValidateAllAgain ==
    /\ vPc = "main"
    /\ vaOut.kind = "return"
    /\ nRuns < MaxRuns
    /\ fsEnv' \in {fsEnv, <<YamlFile(EnvGood), YamlFile(EnvGood), YamlFile(EnvGood)>>}
    /\ vPc' = "validateEnvironmentConfigs"
    /\ vaOut' = NoCall
    /\ nRuns' = nRuns + 1
    /\ UNCHANGED <<fsFlows, errors, warnings, exitCode>>
    /\ UNCHANGED <<renderVars, normVars, checkVars, handlerVars, cliVars, exporterVars>>

NextValidatorReuse == NextValidator \/ ValidateAllAgain

SpecValidatorReuse == InitValidator /\ [][NextValidatorReuse]_vars

\* the findings of one validateAll run over the files, on its own
OwnFindings(env, flows) ==
    [errors |-> validateEnvironmentConfigs(env).errors
                \o validateFlowTemplates(flows).errors
                \o validateTokenCompleteness(flows, env),
     warnings |-> validateEnvironmentConfigs(env).warnings
                  \o validateFlowTemplates(flows).warnings]

\* C25: the result and the counts of a validateAll run are those of the
\* findings of that run alone, whatever the validator recorded before.
C25_RunsIndependent ==
    (vPc = "main" /\ vaOut.kind = "return") =>
        \E own \in {OwnFindings(fsEnv, fsFlows)} :
            /\ vaOut.value = (own.errors = <<>>)
            /\ Len(errors) = Len(own.errors)
            /\ Len(warnings) = Len(own.warnings)

(***************************************************************************)
(* The render command (scripts/render.js): files, renderFile,              *)
(* processFlowsDirectory and main                                          *)
(***************************************************************************)
\* a JSON value with every string rendered: what the rendered text of a
\* template written from v denotes when the substituted texts need no
\* escaping
RECURSIVE RenderedValue(_, _)
RenderedValue(cfg, v) ==
    LET Text(r) == IF r.kind = "return" THEN JStr(r.text) ELSE v
    IN CASE v.t = "str" -> Text(render(cfg, v.s))
         [] v.t = "obj" -> JObj([i \in 1..Len(v.o) |-> <<v.o[i][1], RenderedValue(cfg, v.o[i][2])>>])
         [] v.t = "arr" -> JArr([i \in 1..Len(v.a) |-> RenderedValue(cfg, v.a[i])])
         [] OTHER -> v

\* JSON.parse(renderedContent): the value whose JSON text it is, among the
\* values the templates at hand can denote; a SyntaxError for any other text
JSONParse(text, pool) ==
    LET Value(denoting) ==
            IF denoting = {} THEN [kind |-> "throw", value |-> JNull]
            ELSE [kind |-> "return", value |-> CHOOSE v \in denoting : TRUE]
    IN Value({v \in pool : stringify(v) = text})

\* fs.writeJson(outputFile, parsedJson): the files of the output directory
\* afterwards
writeJson(out, outputFile, json) ==
    {f \in out : f.path # outputFile} \cup {[path |-> outputFile, json |-> json]}

\* renderFile(templateFile, outputFile): the outcome and the output directory
renderFile(cfg, tmpl, outputFile, out, pool) ==
    LET Written(parsedJson) ==
            IF parsedJson.kind = "throw"
            THEN [kind |-> "throw", msg |-> "SyntaxError", out |-> out]
            ELSE [kind |-> "return", msg |-> "",
                  out |-> writeJson(out, outputFile, parsedJson.value)]
        Parsed(r) ==
            IF r.kind = "throw"
            THEN [kind |-> "throw", msg |-> r.msg, out |-> out]
            ELSE Written(JSONParse(r.text, pool))
    IN Parsed(render(cfg, tmpl.text))

\* fs.readJson(outputFile)
readJson(out, outputFile) == (CHOOSE f \in out : f.path = outputFile).json

\* processModulesDirectory: the module templates in turn, up to the first
\* that fails
RECURSIVE processModulesDirectory(_, _, _, _, _)
processModulesDirectory(cfg, moduleFiles, flowName, out, pool) ==
    LET moduleOutputPath(m) ==
            <<"m", "o", "d", "u", "l", "e", "s", "/">> \o flowName \o <<"/">> \o m.name
                \o <<".", "j", "s", "o", "n">>
        Rest(r) ==
            IF r.kind = "throw" THEN r
            ELSE processModulesDirectory(cfg, Tail(moduleFiles), flowName, r.out, pool)
    IN IF moduleFiles = <<>> THEN [kind |-> "return", msg |-> "", out |-> out]
       ELSE Rest(renderFile(cfg, Head(moduleFiles), moduleOutputPath(Head(moduleFiles)),
                            out, pool))

Result(flowName, status) == [flowName |-> flowName, status |-> status]

\* processFlowDirectory(flowDir, outputDir, flowName): the result and the
\* output directory
processFlowDirectory(cfg, dir, out, pool) ==
    LET outputFile == dir.name \o <<".", "j", "s", "o", "n">>
        AfterModules(modules) ==
            IF modules.kind = "throw"
            THEN [result |-> Result(dir.name, "error"), out |-> modules.out]
            ELSE [result |-> Result(dir.name, "success"), out |-> modules.out]
        AfterValidate(checked, rendered) ==
            IF checked.kind = "throw"
            THEN [result |-> Result(dir.name, "error"), out |-> rendered.out]
            ELSE AfterModules(processModulesDirectory(cfg, dir.modules, dir.name,
                                                 rendered.out, pool))
        AfterRender(rendered) ==
            IF rendered.kind = "throw"
            THEN [result |-> Result(dir.name, "error"), out |-> rendered.out]
            ELSE AfterValidate(validateRenderedFlow(readJson(rendered.out, outputFile)), rendered)
    IN IF dir.template.kind = "missing"
       THEN [result |-> Result(dir.name, "skipped"), out |-> out]
       ELSE AfterRender(renderFile(cfg, dir.template, outputFile, out, pool))

\* Mutant: a skipped flow makes the command fail.
ExitCode_skippedFails(results) ==
    IF \E k \in 1..Len(results) : results[k].status # "success" THEN 1 ELSE 0

\* main after processFlowsDirectory: process.exit(1) when a result is an
\* error, otherwise the process ends with code 0
ExitCode(results) ==
    IF \E k \in 1..Len(results) : results[k].status = "error" THEN 1 ELSE 0

(***************************************************************************)
(* The render command: the files of a run                                  *)
(***************************************************************************)
\* a template file written from the JSON value source
CliTemplate(source) == [kind |-> "text", text |-> stringify(source), source |-> source]

\* a template file that is not JSON
CliBroken == [kind |-> "text", text |-> <<"{", "o", "o", "p", "s">>, source |-> JNull]

CliNoTemplate == [kind |-> "missing", text |-> <<>>, source |-> JNull]

FlowHeader == <<<<<<"n", "a", "m", "e">>, JStr(<<"F">>)>>, <<<<"t", "y", "p", "e">>, JStr(<<"C", "O",
                                                              "N", "T", "A",
                                                              "C", "T", "_",
                                                              "F", "L", "O",
                                                              "W">>)>>>>

\* a complete flow with a queue token the environment defines
SourceGood == Artifact(FlowHeader, FlatContent(<<TokenText(<<"Q", "u",
                                                             "e", "u", "e",
                                                             ".", "S", "a",
                                                             "l", "e", "s">>)>>))

\* the rendered flow has no name
SourceNoName ==
    Artifact(<<<<<<"t", "y", "p", "e">>, JStr(<<"C", "O", "N", "T", "A", "C", "T",
                                  "_", "F", "L", "O", "W">>)>>>>, FlatContent(<<TokenText(<<"Q",
                                                                                 "u",
                                                                                 "e",
                                                                                 "u",
                                                                                 "e",
                                                                                 ".",
                                                                                 "S",
                                                                                 "a",
                                                                                 "l",
                                                                                 "e",
                                                                                 "s">>)>>))

\* the rendered flow holds a phone number that is not E.164
SourceBadPhone == Artifact(FlowHeader, FlatContent(<<ZeroPhone>>))

\* a token the environment does not define
SourceMissingToken == Artifact(FlowHeader, FlatContent(<<TokenText(<<"Q",
                                                                     "u",
                                                                     "e",
                                                                     "u",
                                                                     "e",
                                                                     ".",
                                                                     "M",
                                                                     "i",
                                                                     "s",
                                                                     "s",
                                                                     "i",
                                                                     "n", "g">>)>>))

ModuleFile(name, source) ==
    [kind |-> "text", name |-> name, text |-> stringify(source), source |-> source]

ModuleGood == ModuleFile(<<"m", "e", "n", "u", ".", "j", "s", "o", "n">>, FlatContent(<<TokenText(<<"Q",
                                                                  "u", "e",
                                                                  "u", "e",
                                                                  ".", "S",
                                                                  "a", "l",
                                                                  "e", "s">>)>>))

ModuleMissingToken == ModuleFile(<<"q", "u", "e", "u", "e", ".", "j",
                                   "s", "o", "n">>, FlatContent(<<TokenText(<<"Q",
                                                                           "u",
                                                                           "e",
                                                                           "u",
                                                                           "e",
                                                                           ".",
                                                                           "M",
                                                                           "i",
                                                                           "s",
                                                                           "s",
                                                                           "i",
                                                                           "n",
                                                                           "g">>)>>))

\* the contents of a flow directory: flow.json.tmpl and the modules
CliFlowDirs ==
    { [template |-> CliNoTemplate, modules |-> <<>>],
      [template |-> CliTemplate(SourceGood), modules |-> <<>>],
      [template |-> CliTemplate(SourceGood), modules |-> <<ModuleGood>>],
      [template |-> CliTemplate(SourceGood), modules |-> <<ModuleGood, ModuleMissingToken>>],
      [template |-> CliTemplate(SourceNoName), modules |-> <<>>],
      [template |-> CliTemplate(SourceBadPhone), modules |-> <<>>],
      [template |-> CliTemplate(SourceMissingToken), modules |-> <<>>],
      [template |-> CliBroken, modules |-> <<>>] }

CliFlowsDir(ds) ==
    [exists |-> TRUE,
     dirs |-> [k \in 1..Len(ds) |-> [name |-> FlowName(k), template |-> ds[k].template,
                                     modules |-> ds[k].modules]]]

\* the values the templates of the flows directory can denote once rendered
ParsePool(cfg, flows) ==
    LET sources == UNION {{flows.dirs[k].template.source}
                          \cup {flows.dirs[k].modules[j].source :
                                   j \in 1..Len(flows.dirs[k].modules)} :
                          k \in 1..Len(flows.dirs)}
    IN {RenderedValue(cfg, source) : source \in sources}

(***************************************************************************)
(* The render command: state machine of main                               *)
(***************************************************************************)
\* the command starts with an empty output directory
InitCli ==
    /\ cliEnv \in {NoFile, BadYaml, YamlFile(EnvGood)}
    /\ \/ cliFlows = NoFlowsDir
       \/ \E n \in 0..MaxFlows : \E ds \in [1..n -> CliFlowDirs] : cliFlows = CliFlowsDir(ds)
    /\ outDir = {}
    /\ cliResults = [started |-> FALSE, list |-> <<>>]
    /\ cliExit = -1
    /\ RenderIdle /\ NormIdle /\ CheckIdle /\ ValidatorIdle /\ HandlerIdle /\ ExporterIdle

\* main up to the loop of processFlowsDirectory: the catch of main exits
\* with 1 when the config file is missing or cannot be loaded, or the flows
\* directory is missing
MainStart ==
    /\ cliExit = -1 /\ ~cliResults.started
    /\ IF cliEnv.kind # "yaml" \/ ~cliFlows.exists
       THEN cliExit' = 1 /\ cliResults' = cliResults
       ELSE cliExit' = cliExit /\ cliResults' = [started |-> TRUE, list |-> <<>>]
    /\ UNCHANGED <<cliEnv, cliFlows, outDir>>
    /\ UNCHANGED <<renderVars, normVars, checkVars, validatorVars, handlerVars, exporterVars>>

\* one turn of the loop of processFlowsDirectory
ProcessFlowDirectory ==
    /\ cliExit = -1 /\ cliResults.started
    /\ Len(cliResults.list) < Len(cliFlows.dirs)
    /\ \E r \in {processFlowDirectory(cliEnv.config, cliFlows.dirs[Len(cliResults.list) + 1],
                                      outDir, ParsePool(cliEnv.config, cliFlows))} :
           /\ cliResults' = [cliResults EXCEPT !.list = Append(@, r.result)]
           /\ outDir' = r.out
    /\ UNCHANGED <<cliEnv, cliFlows, cliExit>>
    /\ UNCHANGED <<renderVars, normVars, checkVars, validatorVars, handlerVars, exporterVars>>

\* main after processFlowsDirectory returned
MainReport ==
    /\ cliExit = -1 /\ cliResults.started
    /\ Len(cliResults.list) = Len(cliFlows.dirs)
    /\ cliExit' = ExitCode(cliResults.list)
    /\ UNCHANGED <<cliEnv, cliFlows, outDir, cliResults>>
    /\ UNCHANGED <<renderVars, normVars, checkVars, validatorVars, handlerVars, exporterVars>>

NextCli == MainStart \/ ProcessFlowDirectory \/ MainReport

SpecCli == InitCli /\ [][NextCli]_vars

\* processFlowsDirectory has returned
Processed == cliResults.started /\ Len(cliResults.list) = Len(cliFlows.dirs)

\* C26: once processFlowsDirectory has returned, every <flow>.json of the
\* output directory belongs to a flow whose result is 'success'.
C26_NoOutputForFailedFlow ==
    Processed =>
        \A k \in 1..Len(cliFlows.dirs) :
            (\E f \in outDir : f.path = cliFlows.dirs[k].name \o <<".",
                                                                   "j", "s",
                                                                   "o", "n">>)
                => cliResults.list[k].status = "success"

HasFailedFlow ==
    cliResults.started /\ \E k \in 1..Len(cliResults.list) : cliResults.list[k].status = "error"

\* every flow directory has its result, and the directories without
\* flow.json.tmpl are exactly the skipped ones
AllFlowsProcessed ==
    cliResults.started =>
        /\ Processed
        /\ \A k \in 1..Len(cliResults.list) :
              cliResults.list[k].status = "skipped" <=> cliFlows.dirs[k].template.kind = "missing"

\* C27 as stated: the exit code is non-zero iff a flow ended with 'error' or
\* the environment file or the flows directory is missing; every flow
\* directory is processed; a directory without template is 'skipped'.
C27_Original ==
    cliExit # -1 =>
        /\ cliExit # 0 <=> (HasFailedFlow \/ cliEnv.kind = "missing" \/ ~cliFlows.exists)
        /\ AllFlowsProcessed

\* C27 amended: the exit code is also non-zero when the environment file
\* exists and cannot be loaded.
C27_ExitCode ==
    cliExit # -1 =>
        /\ cliExit # 0 <=> (HasFailedFlow \/ cliEnv.kind # "yaml" \/ ~cliFlows.exists)
        /\ AllFlowsProcessed

\* a run whose first flow failed and whose second flow was still rendered
C27_Witness ==
    /\ cliExit = 1
    /\ cliResults.started /\ Len(cliResults.list) = 2
    /\ cliResults.list[1].status = "error"
    /\ cliResults.list[2].status = "success"
    /\ \E f \in outDir : f.path = cliFlows.dirs[2].name \o <<".", "j",
                                                             "s", "o", "n">>

(***************************************************************************)
(* ConnectFlowExporter (scripts/export.js): incremental export             *)
(***************************************************************************)
\* sanitizeFlowName: every character outside [a-zA-Z0-9-_] is removed (no
\* whitespace is left for the second replace), then the first 50 characters
sanitizeFlowName(flowName) ==
    LET kept == SelectSeq(flowName, LAMBDA c : c \in AlnumDash \cup {"_"})
    IN SubSeq(kept, 1, IF Len(kept) < 50 THEN Len(kept) ELSE 50)

\* the metadata.yaml of the directory of a flow name, if there is one
MetadataOf(dir, flowName) == {m \in dir : m.flowDir = sanitizeFlowName(flowName)}

\* exportSingleFlow(instanceId, contactFlowId, outputDir) at the time now:
\* the export directory afterwards; the flow's directory gets flow.json and a
\* metadata.yaml with exportedAt = now
exportSingleFlow(flow, dir, now) ==
    {m \in dir : m.flowDir # sanitizeFlowName(flow.Name)}
        \cup {[flowDir |-> sanitizeFlowName(flow.Name), id |-> flow.Id, exportedAt |-> now]}

\* the modifiedFlows list of exportIncremental: the flows without
\* metadata.yaml and those whose exportedAt is before lastExportTime
modifiedFlows(flows, dir, lastExportTime) ==
    SelectSeq(flows, LAMBDA flow :
        \/ MetadataOf(dir, flow.Name) = {}
        \/ \E m \in MetadataOf(dir, flow.Name) : m.exportedAt < lastExportTime)

\* the loop over modifiedFlows: the export directory after the flows of the
\* list were exported, those of failing left out (getContactFlowContent
\* threw for them)
RECURSIVE ExportEach(_, _, _, _)
ExportEach(list, failing, dir, now) ==
    IF list = <<>> THEN dir
    ELSE ExportEach(Tail(list), failing,
                    IF Head(list).Id \in failing THEN dir
                    ELSE exportSingleFlow(Head(list), dir, now),
                    now)

\* exportIncremental(instanceId, outputDir, lastExportTime): its results and
\* the export directory afterwards
exportIncremental(flows, dir, lastExportTime, failing, now) ==
    LET list == modifiedFlows(flows, dir, lastExportTime)
    IN [results |-> [k \in 1..Len(list) |->
                        [success |-> list[k].Id \notin failing, flow |-> list[k]]],
        dir |-> ExportEach(list, failing, dir, now)]

(***************************************************************************)
(* ConnectFlowExporter: the instance, the export directory and the clock   *)
(***************************************************************************)
MaxTime == 4

NeverExported ==
    [kind |-> "none", since |-> -1, at |-> -1, results |-> <<>>, before |-> {},
     flows |-> <<>>, prev |-> <<>>]

\* two contact flows, last changed at time 0, nothing exported yet
InitExporter ==
    /\ remoteFlows = <<[Name |-> <<"M", "a", "i", "n", " ", "I", "V",
                                   "R">>, Id |-> "id1", modified |-> 0],
                       [Name |-> <<"S", "a", "l", "e", "s">>, Id |-> "id2", modified |-> 0]>>
    /\ exportDir = {}
    /\ clock = 1
    /\ lastExport = NeverExported
    /\ RenderIdle /\ NormIdle /\ CheckIdle /\ ValidatorIdle /\ HandlerIdle /\ CliIdle

\* a contact flow is changed in the Connect instance
EditFlow ==
    /\ clock < MaxTime
    /\ \E k \in 1..Len(remoteFlows) :
           remoteFlows' = [remoteFlows EXCEPT ![k].modified = clock]
    /\ clock' = clock + 1
    /\ UNCHANGED <<exportDir, lastExport>>
    /\ UNCHANGED <<renderVars, normVars, checkVars, validatorVars, handlerVars, cliVars>>

\* export --incremental <since>
ExportIncremental ==
    /\ clock < MaxTime
    /\ \E since \in 0..(MaxTime + 1) : \E failing \in SUBSET {"id1", "id2"} :
       \E r \in {exportIncremental(remoteFlows, exportDir, since, failing, clock)} :
           /\ exportDir' = r.dir
           /\ lastExport' = [kind |-> "export", since |-> since, at |-> clock,
                             results |-> r.results, before |-> exportDir,
                             flows |-> remoteFlows,
                             prev |-> <<lastExport.since, lastExport.at,
                                        lastExport.kind = "export"
                                        /\ \A k \in 1..Len(lastExport.results) :
                                               lastExport.results[k].success>>]
    /\ clock' = clock + 1
    /\ UNCHANGED remoteFlows
    /\ UNCHANGED <<renderVars, normVars, checkVars, validatorVars, handlerVars, cliVars>>

NextExporter == EditFlow \/ ExportIncremental

SpecExporter == InitExporter /\ [][NextExporter]_vars

\* the flows the last exportIncremental call exported or tried to export
Exported == {lastExport.results[k].flow : k \in 1..Len(lastExport.results)}

\* C30: exportIncremental exports only flows changed since the given time or
\* never exported; a run with the same cutoff right after a fully successful
\* run exports nothing.
C30_OnlyChangedFlows ==
    lastExport.kind = "export" =>
        /\ \A flow \in Exported :
              \/ flow.modified >= lastExport.since
              \/ MetadataOf(lastExport.before, flow.Name) = {}
        /\ (lastExport.prev = <<lastExport.since, lastExport.at - 1, TRUE>>)
               => Exported = {}

\* what the source does: the flows exported are those never exported and
\* those whose last export is before the cutoff
SelectionByExportTime ==
    lastExport.kind = "export" =>
        \A k \in 1..Len(lastExport.flows) :
            lastExport.flows[k] \in Exported
                <=> \/ MetadataOf(lastExport.before, lastExport.flows[k].Name) = {}
                    \/ \E m \in MetadataOf(lastExport.before, lastExport.flows[k].Name) :
                           m.exportedAt < lastExport.since

====
